---- MODULE Spec2Model ----
(***************************************************************************)
(* Request pipeline of the user-management REST API: the Express chain of  *)
(* every route (rate limiters, authenticateToken, validators, guards,      *)
(* controller, errorHandler) over a small user store, a clock and the      *)
(* per-category hit counters of express-rate-limit.  A second              *)
(* specification, UnitSpec, calls single middleware functions directly on  *)
(* a mock request, the way the unit tests do.                              *)
(***************************************************************************)
EXTENDS Integers, Sequences, FiniteSets, TLC

VARIABLES nodeEnv, users, now, hits, served, req, unit, flight, tally, auth, stats

vars == <<nodeEnv, users, now, hits, served, req, unit, flight, tally, auth, stats>>

(***************************************************************************)
(* Bounds of the model.                                                    *)
(***************************************************************************)
MaxTime == 1
MaxRequests == 2

(***************************************************************************)
(* Program constants.                                                      *)
(***************************************************************************)
AuthMax == 5
ApiMax == 100
AdminMax == 20
GlobalMaxProduction == 100
GlobalMaxDevelopment == 1000
\* config.jwtExpiresIn ('24h') in clock units: one unit of the clock is 12 hours.
TokenTtl == 2

(***************************************************************************)
(* Values.  Undefined stands for the JavaScript undefined of an absent     *)
(* header, route parameter or body field.                                  *)
(***************************************************************************)
Undefined == "undefined"
Roles == {"ADMIN", "USER"}
Statuses == {"ACTIVE", "INACTIVE"}
AdminId == "a1"
UserId == "u1"
GhostId == "g9"
StoredIds == {AdminId, UserId}
BadId == "not-a-uuid"
Me == "me"
Clients == {"ip1"}
Categories == {"global", "auth", "api", "admin"}

\* bcrypt.hash(password, rounds) and bcrypt.compare(plain, hashed)
hashPassword(password) == <<"bcrypt", password>>

verifyPassword(plainPassword, hashedPassword) ==
  hashedPassword = hashPassword(plainPassword)

\* The users table after seeding: one administrator, one regular user.
InitUsers ==
  [i \in StoredIds |->
     [id |-> i,
      email |-> IF i = AdminId THEN "admin@x" ELSE "user@x",
      fullName |-> "n0",
      password |-> hashPassword(IF i = AdminId THEN "Adm1n!pass" ELSE "Us3r!pass"),
      role |-> IF i = AdminId THEN "ADMIN" ELSE "USER",
      status |-> "ACTIVE"]]

\* validator.isUUID as used by param('id').isUUID()
isUUID(s) == s \in StoredIds \cup {GhostId}

(***************************************************************************)
(* Errors.  NoError is the argument-less next(); AppError carries a status *)
(* code; a foreign error (for instance the SyntaxError of JSON.parse) has  *)
(* none.                                                                   *)
(***************************************************************************)
NoError ==
  [name |-> "none", statusCode |-> 0, message |-> "", code |-> "", fields |-> {}]

AppError(message, statusCode) ==
  [name |-> "AppError", statusCode |-> statusCode, message |-> message,
   code |-> "", fields |-> {}]

\* AppError whose message ends with the listed field names.
AppErrorNaming(message, statusCode, fields) ==
  [name |-> "AppError", statusCode |-> statusCode, message |-> message,
   code |-> "", fields |-> fields]

AuthenticationError(message) ==
  [name |-> "AuthenticationError", statusCode |-> 401, message |-> message,
   code |-> "AUTHENTICATION_ERROR", fields |-> {}]

ForbiddenError(message) ==
  [name |-> "ForbiddenError", statusCode |-> 403, message |-> message,
   code |-> "FORBIDDEN", fields |-> {}]

NotFoundError(message) ==
  [name |-> "NotFoundError", statusCode |-> 404, message |-> message,
   code |-> "NOT_FOUND", fields |-> {}]

BadRequestError(message) ==
  [name |-> "BadRequestError", statusCode |-> 400, message |-> message,
   code |-> "BAD_REQUEST", fields |-> {}]

\* An error that is no AppError and carries no statusCode (0 stands for none).
ForeignError(name, message) ==
  [name |-> name, statusCode |-> 0, message |-> message, code |-> "", fields |-> {}]

instanceofAppError(e) ==
  e.name \in {"AppError", "AuthenticationError", "ForbiddenError",
              "NotFoundError", "BadRequestError", "ConflictError", "DatabaseError"}

(***************************************************************************)
(* Tokens.  A token is described by what jsonwebtoken's verify looks at:   *)
(* its shape, the secret that signed it, its payload and its exp.          *)
(***************************************************************************)
NoClaim == [userId |-> "-", email |-> "-", role |-> "-", iat |-> 0, exp |-> 0]

\* The payload of a token that expires at exp: jsonwebtoken's sign stamps
\* iat with the clock and sets exp = iat + expiresIn.
Claim(u, exp) ==
  [userId |-> u.id, email |-> u.email, role |-> u.role,
   iat |-> exp - TokenTtl, exp |-> exp]

NoToken == [shape |-> "empty", secret |-> "-", payload |-> NoClaim]

ExpValues == {1, MaxTime + 1}

\* Tokens signed by this server for the seeded users.
IssuedTokens ==
  {[shape |-> "jwt", secret |-> "config", payload |-> Claim(InitUsers[i], e)] :
     i \in StoredIds, e \in ExpValues}

\* Tokens signed with another secret; their payload is the attacker's choice.
ForgedTokens ==
  {[shape |-> "jwt", secret |-> "other",
    payload |-> [userId |-> UserId, email |-> "user@x", role |-> "ADMIN",
                iat |-> e - TokenTtl, exp |-> e]] :
     e \in ExpValues}

\* Strings that are no JSON web token: not three segments ("malformed"), or
\* three segments whose payload segment is not JSON ("badPayload").
BrokenTokens ==
  {[shape |-> s, secret |-> "-", payload |-> NoClaim] : s \in {"malformed", "badPayload"}}

\* Authorization headers: absent, another scheme, or "Bearer " + token
\* (the token may be the empty string).
AuthHeaders ==
  {[scheme |-> "absent", token |-> NoToken], [scheme |-> "Basic", token |-> NoToken]}
  \cup {[scheme |-> "Bearer ", token |-> t] : t \in IssuedTokens \cup ForgedTokens \cup BrokenTokens \cup {NoToken}}

\* The headers of the requests sent to the routes: none, or "Bearer " with a
\* token of this server, a forged token, or a token whose payload is no JSON.
RequestHeaders ==
  {[scheme |-> "absent", token |-> NoToken]}
  \cup {[scheme |-> "Bearer ", token |-> t] :
          t \in IssuedTokens
                \cup {f \in ForgedTokens : f.payload.exp = MaxTime + 1}
                \cup {b \in BrokenTokens : b.shape = "badPayload"}}

(***************************************************************************)
(* jsonwebtoken's verify(token, secret) at time t: the outcome is a        *)
(* payload or the class of the exception thrown.  The library checks in    *)
(* this order: three segments, decode (JSON.parse of the payload segment   *)
(* throws a SyntaxError it does not wrap), signature, exp.                 *)
(***************************************************************************)
jwtVerify(token, secret, t) ==
  IF token.shape = "malformed"
    THEN [threw |-> "JsonWebTokenError", payload |-> NoClaim]
  ELSE IF token.shape = "badPayload"
    THEN [threw |-> "SyntaxError", payload |-> NoClaim]
  ELSE IF token.secret # secret
    THEN [threw |-> "JsonWebTokenError", payload |-> NoClaim]
  ELSE IF t >= token.payload.exp
    THEN [threw |-> "TokenExpiredError", payload |-> NoClaim]
  ELSE [threw |-> "none", payload |-> token.payload]

\* error instanceof jwt.JsonWebTokenError: TokenExpiredError and
\* NotBeforeError are subclasses of JsonWebTokenError.
instanceofJsonWebTokenError(threw) ==
  threw \in {"JsonWebTokenError", "TokenExpiredError", "NotBeforeError"}

instanceofTokenExpiredError(threw) == threw = "TokenExpiredError"

\* authHeader && authHeader.startsWith('Bearer ') ? authHeader.substring(7) : null
\* followed by the test !token, which the empty string also satisfies.
HasToken(authHeader) == authHeader.scheme = "Bearer " /\ authHeader.token.shape # "empty"

\* A gate that also looks the owner of the token up and turns a token away
\* whose owner is not ACTIVE.
authenticateTokenActiveOwner(user, authHeader, t) ==
  LET v == jwtVerify(authHeader.token, "config", t) IN
    IF ~HasToken(authHeader)
      THEN [next |-> AppError("Access token is required", 401), user |-> user]
    ELSE IF v.threw # "none"
      THEN [next |-> AppError("Invalid token", 401), user |-> user]
    ELSE IF v.payload.userId \in DOMAIN users
            /\ users[v.payload.userId].status # "ACTIVE"
      THEN [next |-> AppError("Account is inactive", 403), user |-> user]
    ELSE [next |-> NoError, user |-> v.payload]

(***************************************************************************)
(* authenticateToken(req, res, next) on a request whose req.user is user:  *)
(* the argument given to next and the req.user it leaves.                  *)
(***************************************************************************)
authenticateToken(user, authHeader, t) ==
  IF ~HasToken(authHeader)
    THEN [next |-> AppError("Access token is required", 401), user |-> user]
  ELSE LET v == jwtVerify(authHeader.token, "config", t) IN
    IF v.threw = "none" THEN [next |-> NoError, user |-> v.payload]
    ELSE IF instanceofJsonWebTokenError(v.threw)
      THEN [next |-> AppError("Invalid token", 401), user |-> user]
    ELSE IF instanceofTokenExpiredError(v.threw)
      THEN [next |-> AppError("Token expired", 401), user |-> user]
    ELSE [next |-> ForeignError(v.threw, "Unexpected token"), user |-> user]

(***************************************************************************)
(* verifyToken(token): the payload returned or the AppError thrown.        *)
(***************************************************************************)
verifyToken(token, t) ==
  LET v == jwtVerify(token, "config", t) IN
    IF v.threw = "none" THEN [threw |-> NoError, payload |-> v.payload]
    ELSE IF instanceofJsonWebTokenError(v.threw)
      THEN [threw |-> AppError("Invalid token", 401), payload |-> NoClaim]
    ELSE IF instanceofTokenExpiredError(v.threw)
      THEN [threw |-> AppError("Token expired", 401), payload |-> NoClaim]
    ELSE [threw |-> AppError("Token verification failed", 401), payload |-> NoClaim]

(***************************************************************************)
(* Guards.  Each returns the argument it gives to next.                    *)
(***************************************************************************)
\* requireRole that tests the role against nothing: any identity passes.
requireRoleAnyIdentity(roles, user) ==
  IF user = NoClaim THEN AppError("Authentication required", 401)
  ELSE NoError

requireRole(roles, user) ==
  IF user = NoClaim THEN AppError("Authentication required", 401)
  ELSE IF user.role \notin roles THEN AppError("Insufficient permissions", 403)
  ELSE NoError

requireAdmin(user) == requireRole({"ADMIN"}, user)

requireUser(user) == requireRole({"USER", "ADMIN"}, user)

\* requireOwnershipOrAdmin with the sentinel accepted as canAccessOwnProfile does.
requireOwnershipOrAdminOrMe(user, resourceUserId) ==
  IF user = NoClaim THEN AppError("Authentication required", 401)
  ELSE IF user.role = "ADMIN" \/ resourceUserId = user.userId \/ resourceUserId = Me
    THEN NoError
  ELSE AppError("Access denied", 403)

requireOwnershipOrAdmin(user, resourceUserId) ==
  IF user = NoClaim THEN AppError("Authentication required", 401)
  ELSE IF user.role = "ADMIN" \/ resourceUserId = user.userId THEN NoError
  ELSE AppError("Access denied", 403)

canAccessResource(requireOwnership, allowAdmin, user, resourceUserId) ==
  IF user = NoClaim THEN AppError("Authentication required", 401)
  ELSE IF allowAdmin /\ user.role = "ADMIN" THEN NoError
  ELSE IF requireOwnership /\ resourceUserId # user.userId
    THEN AppError("Access denied", 403)
  ELSE NoError

\* canAccessOwnProfile that lets every authenticated request through.
canAccessOwnProfileAnyClaim(user, targetUserId) ==
  IF user = NoClaim THEN AppError("Authentication required", 401) ELSE NoError

canAccessOwnProfile(user, targetUserId) ==
  IF user = NoClaim THEN AppError("Authentication required", 401)
  ELSE IF user.role = "ADMIN" \/ targetUserId = user.userId \/ targetUserId = Me
    THEN NoError
  ELSE AppError("Access denied", 403)

canModifyUser(user, targetUserId) ==
  IF user = NoClaim THEN AppError("Authentication required", 401)
  ELSE IF user.role = "ADMIN" THEN NoError
  ELSE IF targetUserId = user.userId \/ targetUserId = Me THEN NoError
  ELSE AppError("Access denied", 403)

Permission ==
  {"read:own_profile", "update:own_profile", "delete:own_profile",
   "read:all_users", "update:any_user", "delete:any_user", "block:user",
   "unblock:user", "manage:system", "view:logs", "manage:roles"}

ROLE_PERMISSIONS ==
  [role \in Roles |->
     IF role = "USER"
       THEN {"read:own_profile", "update:own_profile", "delete:own_profile"}
     ELSE Permission]

hasPermission(userRole, permission) == permission \in ROLE_PERMISSIONS[userRole]

requirePermission(permission, user) ==
  IF user = NoClaim THEN AppError("Authentication required", 401)
  ELSE IF ~hasPermission(user.role, permission)
    THEN AppError("Insufficient permissions", 403)
  ELSE NoError

\* requireResourcePermission that takes the parameter "me" for the own id.
requireResourcePermissionOrMe(permission, allowOwner, user, resourceUserId) ==
  IF user = NoClaim THEN AppError("Authentication required", 401)
  ELSE IF hasPermission(user.role, permission) THEN NoError
  ELSE IF allowOwner /\ (resourceUserId = user.userId \/ resourceUserId = Me)
    THEN NoError
  ELSE AppError("Insufficient permissions", 403)

requireResourcePermission(permission, allowOwner, user, resourceUserId) ==
  IF user = NoClaim THEN AppError("Authentication required", 401)
  ELSE IF hasPermission(user.role, permission) THEN NoError
  ELSE IF allowOwner /\ resourceUserId = user.userId THEN NoError
  ELSE AppError("Insufficient permissions", 403)

\* extractUserIdFromToken that overwrites the parameter whatever its value.
extractUserIdAlways(user, id) ==
  IF user = NoClaim
    THEN [next |-> AppError("Authentication required", 401), id |-> id, user |-> user]
  ELSE [next |-> NoError, id |-> user.userId, user |-> user]

\* extractUserIdFromToken: the argument given to next, and req.params['id']
\* and req.user after it.
extractUserIdFromToken(user, id) ==
  IF user = NoClaim
    THEN [next |-> AppError("Authentication required", 401), id |-> id, user |-> user]
  ELSE [next |-> NoError, id |-> IF id = Me THEN user.userId ELSE id, user |-> user]

(***************************************************************************)
(* handlePrismaError: an error of the Prisma client becomes an AppError;   *)
(* any other error is returned as it is.                                   *)
(***************************************************************************)
handlePrismaError(error) ==
  IF error.name = "PrismaClientKnownRequestError"
    THEN IF error.code = "P2002"
           THEN [name |-> "ConflictError", statusCode |-> 409,
                 message |-> "field already exists", code |-> "CONFLICT", fields |-> {}]
         ELSE IF error.code = "P2025" THEN NotFoundError("Record not found")
         ELSE IF error.code \in {"P2003", "P2014"}
           THEN [name |-> "ConflictError", statusCode |-> 409,
                 message |-> "constraint violation", code |-> "CONFLICT", fields |-> {}]
         ELSE [name |-> "DatabaseError", statusCode |-> 500,
               message |-> "Database error: " \o error.message,
               code |-> "DATABASE_ERROR", fields |-> {}]
  ELSE IF error.name \in {"PrismaClientUnknownRequestError", "PrismaClientRustPanicError",
                          "PrismaClientInitializationError",
                          "PrismaClientValidationError"}
    THEN [name |-> "DatabaseError", statusCode |-> 500,
          message |-> "Database failure", code |-> "DATABASE_ERROR", fields |-> {}]
  ELSE error

(***************************************************************************)
(* errorHandler: the status and body of the response it sends.             *)
(* handlePrismaError leaves an error that is no Prisma error as it is.     *)
(***************************************************************************)
errorHandler(error, env) ==
  LET processedError ==
        IF instanceofAppError(error) THEN error ELSE handlePrismaError(error)
      known == instanceofAppError(processedError) \/ processedError.statusCode # 0
      code == IF known THEN processedError.code ELSE ""
      \* the typed errors (those with a code) pass an object as details
      details == instanceofAppError(processedError) /\ code # ""
  IN
    [status |-> IF known THEN processedError.statusCode ELSE 500,
     success |-> FALSE,
     message |-> IF known THEN processedError.message ELSE "Internal Server Error",
     code |-> code,
     fields |-> IF known THEN processedError.fields ELSE {},
     data |-> Undefined,
     stack |-> env = "development",
     retryAfter |-> "",
     keys |-> {"success", "message", "timestamp", "path", "method"}
              \cup (IF code # "" THEN {"code"} ELSE {})
              \cup (IF details THEN {"details"} ELSE {})
              \cup (IF env = "development" THEN {"error", "stack"} ELSE {})]

\* The body of a success response: res.status(statusCode).json({success: true, ...})
SuccessResponse(statusCode, message, data) ==
  [status |-> statusCode, success |-> TRUE, message |-> message, code |-> "",
   fields |-> {}, data |-> data, stack |-> FALSE, retryAfter |-> "",
   keys |-> {"success", "message", "data"}]

\* The body of validate() without its timestamp.
ValidationResponseUndated ==
  [status |-> 400, success |-> FALSE, message |-> "Validation failed", code |-> "",
   fields |-> {}, data |-> Undefined, stack |-> FALSE, retryAfter |-> "",
   keys |-> {"success", "message", "errors"}]

\* The body validate() sends itself: res.status(400).json({success: false, ...})
ValidationResponse ==
  [status |-> 400, success |-> FALSE, message |-> "Validation failed", code |-> "",
   fields |-> {}, data |-> Undefined, stack |-> FALSE, retryAfter |-> "",
   keys |-> {"success", "message", "errors", "timestamp"}]

\* The body a rate limiter sends when the limit is exceeded: its message
\* option, whose retryAfter is "" when the option has no such field.
LimitResponse(message, retryAfter) ==
  [status |-> 429, success |-> FALSE, message |-> message, code |-> "",
   fields |-> {}, data |-> Undefined, stack |-> FALSE, retryAfter |-> retryAfter,
   keys |-> {"success", "message"}
            \cup (IF retryAfter # "" THEN {"retryAfter"} ELSE {})]

NoResponse ==
  [status |-> 0, success |-> FALSE, message |-> "", code |-> "",
   fields |-> {}, data |-> Undefined, stack |-> FALSE, retryAfter |-> "", keys |-> {}]

(***************************************************************************)
(* Request bodies of PATCH /users/:id.  A field that is absent is          *)
(* Undefined; Object.keys(body) are the fields that are present.           *)
(***************************************************************************)
BodyFields == {"fullName", "role", "status", "email"}

EmptyBody == [f \in BodyFields |-> Undefined]

Body(fullName, role, status) ==
  [f \in BodyFields |->
     IF f = "fullName" THEN fullName
     ELSE IF f = "role" THEN role
     ELSE IF f = "status" THEN status
     ELSE Undefined]

Bodies ==
  {EmptyBody,
   Body("n1", Undefined, Undefined),
   Body(Undefined, "ADMIN", Undefined),
   Body(Undefined, "admin", Undefined),
   Body("n1", "ADMIN", "INACTIVE"),
   Body(Undefined, Undefined, "inactive"),
   [EmptyBody EXCEPT !["email"] = "admin@x"]}

ObjectKeys(body) == {f \in BodyFields : body[f] # Undefined}

\* allowedFields of updateUser
AllowedFields == {"fullName", "birthDate", "email"}

(***************************************************************************)
(* UserService over the users table.  Each operation returns the error it  *)
(* throws (NoError if none), the table after it and the record it returns. *)
(***************************************************************************)
\* The null of a findUnique that finds nothing.
Null ==
  [id |-> "null", email |-> "-", fullName |-> "-", password |-> <<>>, role |-> "-",
   status |-> "-"]

findUnique(table, id) == IF id \in DOMAIN table THEN table[id] ELSE Null

\* prisma.user.update({where: {id}, data}): the enum columns accept only
\* their enum values; anything else is a PrismaClientValidationError.
PrismaAccepts(data) ==
  /\ data["role"] \in Roles \cup {Undefined}
  /\ data["status"] \in Statuses \cup {Undefined}

PrismaUpdate(rec, data) ==
  [rec EXCEPT !.fullName = IF data["fullName"] # Undefined THEN data["fullName"] ELSE @,
              !.email = IF data["email"] # Undefined THEN data["email"] ELSE @,
              !.role = IF data["role"] # Undefined THEN data["role"] ELSE @,
              !.status = IF data["status"] # Undefined THEN data["status"] ELSE @]

\* updateUser that writes the record before it looks for the email.
ServiceUpdateUserThenCheck(table, id, data) ==
  IF id \notin DOMAIN table
    THEN [threw |-> AppError("User not found", 404), table |-> table, data |-> Undefined]
  ELSE IF ~PrismaAccepts(data)
    THEN [threw |-> AppError("Failed to update user", 500), table |-> table,
          data |-> Undefined]
  ELSE IF /\ data["email"] # Undefined
          /\ data["email"] # table[id].email
          /\ \E i \in DOMAIN table : table[i].email = data["email"]
    THEN [threw |-> AppError("Email already exists", 409),
          table |-> [table EXCEPT ![id] = PrismaUpdate(@, data)], data |-> Undefined]
  ELSE [threw |-> NoError,
        table |-> [table EXCEPT ![id] = PrismaUpdate(@, data)],
        data |-> id]

ServiceUpdateUser(table, id, data) ==
  IF id \notin DOMAIN table
    THEN [threw |-> AppError("User not found", 404), table |-> table, data |-> Undefined]
  ELSE IF /\ data["email"] # Undefined
          /\ data["email"] # table[id].email
          /\ \E i \in DOMAIN table : table[i].email = data["email"]
    THEN [threw |-> AppError("Email already exists", 409), table |-> table,
          data |-> Undefined]
  ELSE IF ~PrismaAccepts(data)
    THEN [threw |-> AppError("Failed to update user", 500), table |-> table,
          data |-> Undefined]
  ELSE [threw |-> NoError,
        table |-> [table EXCEPT ![id] = PrismaUpdate(@, data)],
        data |-> id]

updateUserStatus(table, id, status) ==
  IF id \notin DOMAIN table
    THEN [threw |-> AppError("User not found", 404), table |-> table, data |-> Undefined]
  ELSE [threw |-> NoError,
        table |-> [table EXCEPT ![id].status = status],
        data |-> id]

\* deleteUser that removes the row.
ServiceDeleteUserHard(table, id) ==
  IF id \notin DOMAIN table
    THEN [threw |-> AppError("User not found", 404), table |-> table, data |-> Undefined]
  ELSE [threw |-> NoError,
        table |-> [i \in DOMAIN table \ {id} |-> table[i]],
        data |-> Undefined]

ServiceDeleteUser(table, id) ==
  IF id \notin DOMAIN table
    THEN [threw |-> AppError("User not found", 404), table |-> table, data |-> Undefined]
  ELSE [threw |-> NoError,
        table |-> [table EXCEPT ![id].status = "INACTIVE"],
        data |-> Undefined]

(***************************************************************************)
(* Routes and their chains: the application-level limiter of app.ts, then  *)
(* the middleware of the route in the order the router lists it, the       *)
(* controller last.                                                        *)
(***************************************************************************)
AdminRoutes ==
  {"GET /api/users/stats", "GET /api/users/search", "GET /api/users",
   "PATCH /api/users/:id/block", "PATCH /api/users/:id/unblock",
   "DELETE /api/users/:id"}

Routes ==
  AdminRoutes \cup
  {"GET /api/users/me", "GET /api/users/:id", "PATCH /api/users/:id",
   "POST /api/auth/logout", "GET /api/auth/me", "GET /api/nonexistent"}

\* A chain that validates the id parameter before it authenticates.
ChainValidatingFirst(route) ==
  IF route = "GET /api/users/:id"
    THEN <<"limiter", "apiRateLimit", "validate(getUserById)", "authenticateToken",
           "canAccessOwnProfile", "getById">>
  ELSE <<"limiter", "notFoundHandler">>

Chain(route) ==
  CASE route = "GET /api/users/stats" ->
         <<"limiter", "adminRateLimit", "authenticateToken", "requireAdmin",
           "getUserStats">>
    [] route = "GET /api/users/search" ->
         <<"limiter", "adminRateLimit", "authenticateToken", "requireAdmin",
           "validate(getUsers)", "searchUsers">>
    [] route = "GET /api/users/me" ->
         <<"limiter", "apiRateLimit", "authenticateToken", "extractUserIdFromToken",
           "canAccessOwnProfile", "getById">>
    [] route = "GET /api/users" ->
         <<"limiter", "adminRateLimit", "authenticateToken", "requireAdmin",
           "validate(getUsers)", "getAll">>
    [] route = "GET /api/users/:id" ->
         <<"limiter", "apiRateLimit", "authenticateToken", "validate(getUserById)",
           "canAccessOwnProfile", "getById">>
    [] route = "PATCH /api/users/:id" ->
         <<"limiter", "apiRateLimit", "authenticateToken", "validateContentType",
           "validate(updateUser)", "canModifyUser", "updateUser">>
    [] route = "PATCH /api/users/:id/block" ->
         <<"limiter", "adminRateLimit", "authenticateToken", "requireAdmin",
           "validate(blockUser)", "blockUser">>
    [] route = "PATCH /api/users/:id/unblock" ->
         <<"limiter", "adminRateLimit", "authenticateToken", "requireAdmin",
           "validate(blockUser)", "unblockUser">>
    [] route = "DELETE /api/users/:id" ->
         <<"limiter", "adminRateLimit", "authenticateToken", "requireAdmin",
           "validate(getUserById)", "deleteUser">>
    [] route = "POST /api/auth/logout" ->
         <<"limiter", "apiRateLimit", "authenticateToken", "logout">>
    [] route = "GET /api/auth/me" ->
         <<"limiter", "apiRateLimit", "authenticateToken", "me">>
    [] route = "GET /api/nonexistent" -> <<"limiter", "notFoundHandler">>
    [] OTHER -> <<>>

Method(route) ==
  IF route \in {"PATCH /api/users/:id", "PATCH /api/users/:id/block",
                "PATCH /api/users/:id/unblock"} THEN "PATCH"
  ELSE IF route = "DELETE /api/users/:id" THEN "DELETE"
  ELSE IF route = "POST /api/auth/logout" THEN "POST"
  ELSE "GET"

\* req.params['id'] as the router sets it: the path segment of a route with
\* an :id, undefined on every other route.  "/api/users/me" is taken by the
\* '/me' route, which is registered before '/:id'.
ParamIds(route) ==
  IF route = "GET /api/users/:id" THEN StoredIds \cup {GhostId, BadId}
  ELSE IF route \in {"PATCH /api/users/:id", "PATCH /api/users/:id/block",
                     "PATCH /api/users/:id/unblock", "DELETE /api/users/:id"}
    THEN StoredIds \cup {GhostId, BadId, Me}
  ELSE {Undefined}

(***************************************************************************)
(* The request in flight.                                                  *)
(***************************************************************************)
Idle ==
  [phase |-> "idle", route |-> "-", client |-> "-",
   authHeader |-> [scheme |-> "absent", token |-> NoToken],
   id |-> Undefined, body |-> EmptyBody, json |-> TRUE, query |-> "none",
   user |-> NoClaim, pc |-> 0, ran |-> <<>>, rejectedBy |-> "-",
   err |-> NoError, handled |-> FALSE, res |-> NoResponse, sent |-> 0,
   calls |-> {}, before |-> InitUsers]

\* A request arrives; before keeps the users table as it was on arrival.
Arrive(route, client, authHeader, id, body, json, query, table) ==
  [Idle EXCEPT !.phase = "chain", !.route = route, !.client = client,
               !.authHeader = authHeader, !.id = id, !.body = body,
               !.json = json, !.query = query, !.pc = 1, !.before = table]

AtStep(name) ==
  /\ req.phase = "chain"
  /\ req.pc \in 1..Len(Chain(req.route))
  /\ Chain(req.route)[req.pc] = name

\* next(): the next handler of the chain runs.
Pass(r, step) == [r EXCEPT !.pc = @ + 1, !.ran = Append(@, step)]

\* A rejection without the return: the error is recorded and the chain goes on.
RejectFallsThrough(r, step, error) ==
  [r EXCEPT !.pc = @ + 1, !.err = error, !.rejectedBy = step,
            !.ran = Append(@, step)]

\* return next(error), or a throw inside asyncHandler: Express skips the rest
\* of the chain and calls the error-handling middleware.
Reject(r, step, error) ==
  [r EXCEPT !.phase = "error", !.err = error, !.rejectedBy = step,
            !.ran = Append(@, step)]

\* res.status(..).json(..) without next: the chain ends here.
Respond(r, step, response) ==
  [r EXCEPT !.phase = "done", !.res = response, !.sent = @ + 1,
            !.rejectedBy = IF response.success THEN @ ELSE step,
            !.ran = Append(@, step)]

Continue(r, step, error) ==
  IF error = NoError THEN Pass(r, step) ELSE Reject(r, step, error)

\* A service call made by a controller, with the id it was made for.
Called(r, op, id) == [r EXCEPT !.calls = @ \cup {<<op, id>>}]

(***************************************************************************)
(* express-rate-limit: every request increments the hit count of its       *)
(* client; the request passes unless the count now exceeds max.            *)
(***************************************************************************)
Max(category, env) ==
  CASE category = "auth" -> AuthMax
    [] category = "api" -> ApiMax
    [] category = "admin" -> AdminMax
    [] category = "global" ->
         IF env = "production" THEN GlobalMaxProduction ELSE GlobalMaxDevelopment

LimitMessage(category) ==
  CASE category = "auth" -> "Too many authentication attempts, please try again later"
    [] category = "api" -> "Too many requests, please try again later"
    [] category = "admin" -> "Too many admin requests, please try again later"
    [] category = "global" -> "Too many requests from this IP, please try again later."

\* The retryAfter field of the limiter's message option.
RetryAfter(category) ==
  CASE category = "auth" -> "15 minutes"
    [] category = "api" -> "15 minutes"
    [] category = "admin" -> "5 minutes"
    [] category = "global" -> ""

\* No limiter takes a count back.
SkipNothing(category) == FALSE

\* skipSuccessfulRequests: the count is taken back when the response
\* finishes with a status below 400.
SkipSuccessfulRequests(category) == category = "auth"

requestWasSuccessful(status) == status < 400

\* An increment whose write is lost.
IncrementLost(h, category, client) == h

\* An increment under a key that is the same for every client.
IncrementEveryKey(h, category, client) ==
  [h EXCEPT ![category] = [k \in DOMAIN @ |-> @[k] + 1]]

Increment(h, category, client) == [h EXCEPT ![category][client] = @ + 1]

rateLimit(step, category) ==
  /\ AtStep(step)
  /\ hits' = Increment(hits, category, req.client)
  /\ req' = IF hits'[category][req.client] > Max(category, nodeEnv)
              THEN Respond(req, step, LimitResponse(LimitMessage(category), RetryAfter(category)))
              ELSE Pass(req, step)
  /\ UNCHANGED <<nodeEnv, users, now, served, unit, flight, tally, auth, stats>>

(***************************************************************************)
(* Requests in flight side by side (LimitSpec): how many requests of each  *)
(* client are at each stage on each category's endpoints, and the tally of *)
(* each limiter's decisions in its current window.                         *)
(***************************************************************************)
LimitClients == {"ip1", "ip2"}

RouteCategories == {"auth", "api", "admin"}

\* "parsing": past the global limiter, not yet at the route's limiter;
\* "handling": past the route's limiter, response not finished;
\* "stale": as "handling", let through in an earlier window of the limiter;
\* "refused": answered 429 by a limiter.
Stages == {"parsing", "handling", "stale", "refused"}

Slots == Stages \X RouteCategories \X LimitClients

NoFlight == [x \in Slots |-> 0]

\* Per limiter and client, in the limiter's current window: requests let
\* through, requests rejected, and (for a limiter that looks at the status)
\* requests let through whose response finished with a failure status.
NoCount == [passed |-> 0, failed |-> 0, rejected |-> 0]

NoTally == [c \in Categories |-> [k \in LimitClients |-> NoCount]]

(***************************************************************************)
(* Requests on the public routes of the auth router (AuthSpec): two        *)
(* requests can be in flight at a time, each waiting at one of the awaits  *)
(* of its chain.                                                           *)
(***************************************************************************)
NoAuth ==
  [s \in {1, 2} |->
     [phase |-> "idle", route |-> "-", email |-> "-", password |-> "-",
      role |-> Undefined, json |-> TRUE, res |-> NoResponse]]

\* No getUserStats call is running.
NoStats ==
  [phase |-> "idle", pending |-> {},
   result |-> [q \in {"total", "active", "inactive", "admins", "users"} |-> 0]]

UnitIdle ==
  [mw |-> "-", called |-> FALSE, user |-> NoClaim, id |-> Undefined, roles |-> {},
   opts |-> [requireOwnership |-> TRUE, allowAdmin |-> TRUE, allowOwner |-> TRUE],
   authHeader |-> [scheme |-> "absent", token |-> NoToken],
   next |-> NoError, idAfter |-> Undefined, userAfter |-> NoClaim,
   permission |-> Undefined, err |-> NoError, nextCalled |-> FALSE,
   res |-> NoResponse, sent |-> 0]

(***************************************************************************)
(* The server some time into a rate-limit window: the client has sent      *)
(* nothing yet, or has used the whole quota of the global limiter on       *)
(* endpoints that have no limiter of their own (/health, unknown paths).   *)
(***************************************************************************)
Init ==
  /\ nodeEnv \in {"production", "development"}
  /\ users = InitUsers
  /\ now = 0
  /\ \E spent \in {"global", "-"} :
       hits = [c \in Categories |->
                 [k \in Clients |-> IF c = spent THEN Max(c, nodeEnv) ELSE 0]]
  /\ served = 0
  /\ req = Idle
  /\ unit = UnitIdle
  /\ flight = NoFlight
  /\ tally = NoTally
  /\ auth = NoAuth
  /\ stats = NoStats

\* Time is counted in token lifetimes (config.jwtExpiresIn): a tick is far
\* longer than any limiter's window, so every store has been reset.  Between
\* two readings of the clock by one request no tick is taken: each request
\* reads the clock once.
Tick ==
  /\ req.phase = "idle"
  /\ now < MaxTime
  /\ now' = now + 1
  /\ hits' = [c \in Categories |-> [k \in Clients |-> 0]]
  /\ UNCHANGED <<nodeEnv, users, served, req, unit, flight, tally, auth, stats>>

\* A request arrives.  Only PATCH /api/users/:id has a body, and when its
\* Content-Type is not application/json express.json() parses nothing and
\* req.body is empty; the list and search routes have a query string: none,
\* "?q=test" or "?q=test&page=0".
NewRequest ==
  /\ req.phase = "idle"
  /\ served < MaxRequests
  /\ served' = served + 1
  /\ \E route \in Routes, client \in Clients, authHeader \in RequestHeaders :
       \E id \in ParamIds(route),
          body \in IF route = "PATCH /api/users/:id" THEN Bodies ELSE {EmptyBody},
          json \in IF route = "PATCH /api/users/:id" THEN BOOLEAN ELSE {TRUE},
          query \in IF route \in {"GET /api/users", "GET /api/users/search"}
                      THEN {"none", "q", "badPage"} ELSE {"none"} :
         /\ (~json => body = EmptyBody)
         /\ req' = Arrive(route, client, authHeader, id, body, json, query, users)
  /\ UNCHANGED <<nodeEnv, users, now, hits, unit, flight, tally, auth, stats>>

\* windowMs of limiter c has elapsed: its store forgets every key.
WindowElapsed ==
  /\ req.phase = "idle"
  /\ \E c \in Categories :
       /\ \E k \in Clients : hits[c][k] > 0
       /\ hits' = [hits EXCEPT ![c] = [k \in Clients |-> 0]]
  /\ UNCHANGED <<nodeEnv, users, now, served, req, unit, flight, tally, auth, stats>>

Limiter == rateLimit("limiter", "global")

ApiRateLimit == rateLimit("apiRateLimit", "api")

AdminRateLimit == rateLimit("adminRateLimit", "admin")

AuthenticateToken ==
  /\ AtStep("authenticateToken")
  /\ LET a == authenticateToken(req.user, req.authHeader, now) IN
       req' = Continue([req EXCEPT !.user = a.user], "authenticateToken", a.next)
  /\ UNCHANGED <<nodeEnv, users, now, hits, served, unit, flight, tally, auth, stats>>

\* app.use(notFoundHandler): a path no router matched.
NotFoundHandler ==
  /\ AtStep("notFoundHandler")
  /\ req' = Reject(req, "notFoundHandler", AppError("Route not found", 404))
  /\ UNCHANGED <<nodeEnv, users, now, hits, served, unit, flight, tally, auth, stats>>

\* app.use(errorHandler): the terminal handler sends the error response.
ErrorHandler ==
  /\ req.phase = "error"
  /\ req' = [req EXCEPT !.phase = "done", !.handled = TRUE,
                        !.res = errorHandler(req.err, nodeEnv), !.sent = @ + 1]
  /\ UNCHANGED <<nodeEnv, users, now, hits, served, unit, flight, tally, auth, stats>>

(***************************************************************************)
(* Guards and validators as steps of a chain.                              *)
(***************************************************************************)
RequireAdmin ==
  /\ AtStep("requireAdmin")
  /\ req' = Continue(req, "requireAdmin", requireAdmin(req.user))
  /\ UNCHANGED <<nodeEnv, users, now, hits, served, unit, flight, tally, auth, stats>>

ExtractUserIdFromToken ==
  /\ AtStep("extractUserIdFromToken")
  /\ LET x == extractUserIdFromToken(req.user, req.id) IN
       req' = Continue([req EXCEPT !.id = x.id, !.user = x.user],
                       "extractUserIdFromToken", x.next)
  /\ UNCHANGED <<nodeEnv, users, now, hits, served, unit, flight, tally, auth, stats>>

CanAccessOwnProfile ==
  /\ AtStep("canAccessOwnProfile")
  /\ req' = Continue(req, "canAccessOwnProfile", canAccessOwnProfile(req.user, req.id))
  /\ UNCHANGED <<nodeEnv, users, now, hits, served, unit, flight, tally, auth, stats>>

CanModifyUser ==
  /\ AtStep("canModifyUser")
  /\ req' = Continue(req, "canModifyUser", canModifyUser(req.user, req.id))
  /\ UNCHANGED <<nodeEnv, users, now, hits, served, unit, flight, tally, auth, stats>>

\* validateContentType('application/json')
validateContentType(method, json) ==
  IF method \in {"GET", "DELETE"} THEN NoError
  ELSE IF ~json THEN AppError("Invalid content type. Expected application/json", 400)
  ELSE NoError

ValidateContentType ==
  /\ AtStep("validateContentType")
  /\ req' = Continue(req, "validateContentType",
                     validateContentType(Method(req.route), req.json))
  /\ UNCHANGED <<nodeEnv, users, now, hits, served, unit, flight, tally, auth, stats>>

\* validate(validations): next() when there are no errors, else it sends
\* the 400 response itself.  valid is TRUE when validationResult(req) is
\* empty for the validation set of the step; an optional() field that is
\* absent is not checked.
validate(r, step, valid) ==
  IF valid THEN Pass(r, step) ELSE Respond(r, step, ValidationResponse)

ValidateGetUserById ==
  /\ AtStep("validate(getUserById)")
  /\ req' = validate(req, "validate(getUserById)", isUUID(req.id))
  /\ UNCHANGED <<nodeEnv, users, now, hits, served, unit, flight, tally, auth, stats>>

ValidateBlockUser ==
  /\ AtStep("validate(blockUser)")
  /\ req' = validate(req, "validate(blockUser)", isUUID(req.id))
  /\ UNCHANGED <<nodeEnv, users, now, hits, served, unit, flight, tally, auth, stats>>

ValidateUpdateUser ==
  /\ AtStep("validate(updateUser)")
  /\ req' = validate(req, "validate(updateUser)",
                     /\ isUUID(req.id)
                     /\ req.body["role"] \in {Undefined, "admin", "user"}
                     /\ req.body["status"] \in {Undefined, "active", "inactive"})
  /\ UNCHANGED <<nodeEnv, users, now, hits, served, unit, flight, tally, auth, stats>>

ValidateGetUsers ==
  /\ AtStep("validate(getUsers)")
  /\ req' = validate(req, "validate(getUsers)", req.query # "badPage")
  /\ UNCHANGED <<nodeEnv, users, now, hits, served, unit, flight, tally, auth, stats>>

(***************************************************************************)
(* Controllers.  A throw inside asyncHandler reaches next(error).          *)
(***************************************************************************)
AdminOnlyMessage == "Access denied. Admin privileges required."

\* A controller that ends by throwing error or by sending response.
Finish(r, step, error, response) ==
  IF error # NoError THEN Reject(r, step, error) ELSE Respond(r, step, response)

GetById ==
  /\ AtStep("getById")
  /\ LET id == req.id
         error ==
           IF req.user = NoClaim THEN AuthenticationError("Authentication required")
           ELSE IF id = Undefined THEN BadRequestError("User ID is required")
           ELSE IF req.user.role # "ADMIN" /\ req.user.userId # id
             THEN ForbiddenError("Access denied for action: view user profile")
           ELSE IF findUnique(users, id) = Null
             THEN NotFoundError("User with id not found")
           ELSE NoError
         reads == req.user # NoClaim /\ id # Undefined
                    /\ (req.user.role = "ADMIN" \/ req.user.userId = id)
     IN req' = Finish(IF reads THEN Called(req, "findById", id) ELSE req, "getById",
                      error, SuccessResponse(200, "User retrieved successfully", id))
  /\ UNCHANGED <<nodeEnv, users, now, hits, served, unit, flight, tally, auth, stats>>

GetAll ==
  /\ AtStep("getAll")
  /\ LET error ==
           IF req.user = NoClaim THEN AppError("Authentication required", 401)
           ELSE IF req.user.role # "ADMIN" THEN AppError(AdminOnlyMessage, 403)
           ELSE NoError
     IN req' = Finish(IF error = NoError THEN Called(req, "findAll", Undefined) ELSE req,
                      "getAll", error,
                      SuccessResponse(200, "Users retrieved successfully", Undefined))
  /\ UNCHANGED <<nodeEnv, users, now, hits, served, unit, flight, tally, auth, stats>>

GetUserStats ==
  /\ AtStep("getUserStats")
  /\ LET error ==
           IF req.user = NoClaim THEN AppError("Authentication required", 401)
           ELSE IF req.user.role # "ADMIN" THEN AppError(AdminOnlyMessage, 403)
           ELSE NoError
     IN req' = Finish(IF error = NoError THEN Called(req, "getUserStats", Undefined)
                                        ELSE req,
                      "getUserStats", error,
                      SuccessResponse(200, "User statistics retrieved successfully",
                                      Undefined))
  /\ UNCHANGED <<nodeEnv, users, now, hits, served, unit, flight, tally, auth, stats>>

SearchUsers ==
  /\ AtStep("searchUsers")
  /\ LET error ==
           IF req.user = NoClaim THEN AppError("Authentication required", 401)
           ELSE IF req.user.role # "ADMIN" THEN AppError(AdminOnlyMessage, 403)
           ELSE IF req.query = "none" THEN AppError("Search query is required", 400)
           ELSE NoError
     IN req' = Finish(IF error = NoError THEN Called(req, "searchUsers", Undefined)
                                        ELSE req,
                      "searchUsers", error,
                      SuccessResponse(200, "Users found successfully", Undefined))
  /\ UNCHANGED <<nodeEnv, users, now, hits, served, unit, flight, tally, auth, stats>>

UpdateUser ==
  /\ AtStep("updateUser")
  /\ LET id == req.id
         restrictedFields == ObjectKeys(req.body) \ AllowedFields
         early ==
           IF req.user = NoClaim THEN AppError("Authentication required", 401)
           ELSE IF id = Undefined THEN AppError("User ID is required", 400)
           ELSE IF req.user.role # "ADMIN" /\ req.user.userId # id
             THEN AppError("Access denied. You can only update your own profile.", 403)
           ELSE IF req.user.role # "ADMIN" /\ restrictedFields # {}
             THEN AppErrorNaming("Access denied. You cannot update the following fields: ",
                                 403, restrictedFields)
           ELSE NoError
         s == ServiceUpdateUser(users, id, req.body)
     IN IF early # NoError
          THEN /\ req' = Reject(req, "updateUser", early)
               /\ users' = users
          ELSE /\ req' = Finish(Called(req, "updateUser", id), "updateUser", s.threw,
                                SuccessResponse(200, "User updated successfully", s.data))
               /\ users' = s.table
  /\ UNCHANGED <<nodeEnv, now, hits, served, unit, flight, tally, auth, stats>>

BlockUser ==
  /\ AtStep("blockUser")
  /\ LET id == req.id
         early ==
           IF req.user = NoClaim THEN AppError("Authentication required", 401)
           ELSE IF req.user.role # "ADMIN" THEN AppError(AdminOnlyMessage, 403)
           ELSE IF id = Undefined THEN AppError("User ID is required", 400)
           ELSE IF req.user.userId = id THEN AppError("You cannot block yourself", 400)
           ELSE NoError
         s == updateUserStatus(users, id, "INACTIVE")
     IN IF early # NoError
          THEN /\ req' = Reject(req, "blockUser", early)
               /\ users' = users
          ELSE /\ req' = Finish(Called(req, "blockUser", id), "blockUser", s.threw,
                                SuccessResponse(200, "User blocked successfully", s.data))
               /\ users' = s.table
  /\ UNCHANGED <<nodeEnv, now, hits, served, unit, flight, tally, auth, stats>>

UnblockUser ==
  /\ AtStep("unblockUser")
  /\ LET id == req.id
         early ==
           IF req.user = NoClaim THEN AppError("Authentication required", 401)
           ELSE IF req.user.role # "ADMIN" THEN AppError(AdminOnlyMessage, 403)
           ELSE IF id = Undefined THEN AppError("User ID is required", 400)
           ELSE NoError
         s == updateUserStatus(users, id, "ACTIVE")
     IN IF early # NoError
          THEN /\ req' = Reject(req, "unblockUser", early)
               /\ users' = users
          ELSE /\ req' = Finish(Called(req, "unblockUser", id), "unblockUser", s.threw,
                                SuccessResponse(200, "User unblocked successfully", s.data))
               /\ users' = s.table
  /\ UNCHANGED <<nodeEnv, now, hits, served, unit, flight, tally, auth, stats>>

DeleteUser ==
  /\ AtStep("deleteUser")
  /\ LET id == req.id
         early ==
           IF req.user = NoClaim THEN AppError("Authentication required", 401)
           ELSE IF req.user.role # "ADMIN" THEN AppError(AdminOnlyMessage, 403)
           ELSE IF id = Undefined THEN AppError("User ID is required", 400)
           ELSE IF req.user.userId = id THEN AppError("You cannot delete yourself", 400)
           ELSE NoError
         s == ServiceDeleteUser(users, id)
     IN IF early # NoError
          THEN /\ req' = Reject(req, "deleteUser", early)
               /\ users' = users
          ELSE /\ req' = Finish(Called(req, "deleteUser", id), "deleteUser", s.threw,
                                SuccessResponse(200, "User deleted successfully", s.data))
               /\ users' = s.table
  /\ UNCHANGED <<nodeEnv, now, hits, served, unit, flight, tally, auth, stats>>

Logout ==
  /\ AtStep("logout")
  /\ req' = Respond(req, "logout", SuccessResponse(200, "Logout successful", Undefined))
  /\ UNCHANGED <<nodeEnv, users, now, hits, served, unit, flight, tally, auth, stats>>

AuthMe ==
  /\ AtStep("me")
  /\ LET userId == req.user.userId
         error ==
           IF req.user = NoClaim THEN AppError("User not authenticated", 401)
           ELSE IF findUnique(users, userId) = Null
             THEN AppError("User not found", 404)
           ELSE NoError
     IN req' = Finish(IF req.user # NoClaim THEN Called(req, "findById", userId) ELSE req,
                      "me", error,
                      SuccessResponse(200, "User profile retrieved successfully", userId))
  /\ UNCHANGED <<nodeEnv, users, now, hits, served, unit, flight, tally, auth, stats>>

\* The response has been written out: the request is over.
Complete ==
  /\ req.phase = "done"
  /\ req' = Idle
  /\ UNCHANGED <<nodeEnv, users, now, hits, served, unit, flight, tally, auth, stats>>

Next ==
  \/ WindowElapsed
  \/ Tick
  \/ NewRequest
  \/ Complete
  \/ Limiter
  \/ ApiRateLimit
  \/ AdminRateLimit
  \/ AuthenticateToken
  \/ NotFoundHandler
  \/ RequireAdmin
  \/ ExtractUserIdFromToken
  \/ CanAccessOwnProfile
  \/ CanModifyUser
  \/ ValidateContentType
  \/ ValidateGetUserById
  \/ ValidateBlockUser
  \/ ValidateUpdateUser
  \/ ValidateGetUsers
  \/ GetById
  \/ GetAll
  \/ GetUserStats
  \/ SearchUsers
  \/ UpdateUser
  \/ BlockUser
  \/ UnblockUser
  \/ DeleteUser
  \/ Logout
  \/ AuthMe
  \/ ErrorHandler

Spec == Init /\ [][Next]_vars

(***************************************************************************)
(* UnitSpec: one middleware function called directly on a mock request     *)
(* (req.user, req.params, req.headers set by the caller), with next        *)
(* recorded, as the unit tests of the middleware do.                       *)
(***************************************************************************)
UnitUsers ==
  {NoClaim} \cup
  {[userId |-> i, email |-> InitUsers[i].email, role |-> r,
    iat |-> MaxTime + 1 - TokenTtl, exp |-> MaxTime + 1] :
     i \in StoredIds, r \in Roles}

UnitIds == StoredIds \cup {GhostId, BadId, Me, Undefined}

UnitCase(mw, user, id, roles, opts, authHeader) ==
  [mw |-> mw, called |-> FALSE, user |-> user, id |-> id, roles |-> roles,
   opts |-> opts, authHeader |-> authHeader,
   next |-> NoError, idAfter |-> id, userAfter |-> user,
   permission |-> Undefined, err |-> NoError, nextCalled |-> FALSE,
   res |-> NoResponse, sent |-> 0]

DefaultOpts == [requireOwnership |-> TRUE, allowAdmin |-> TRUE, allowOwner |-> TRUE]

NoHeader == [scheme |-> "absent", token |-> NoToken]

UnitCases ==
  {UnitCase("requireRole", u, Undefined, rs, DefaultOpts, NoHeader) :
     u \in UnitUsers, rs \in SUBSET Roles}
  \cup {UnitCase(mw, u, Undefined, {}, DefaultOpts, NoHeader) :
     mw \in {"requireAdmin", "requireUser"}, u \in UnitUsers}
  \cup {UnitCase(mw, u, i, {}, DefaultOpts, NoHeader) :
     mw \in {"requireOwnershipOrAdmin", "canAccessOwnProfile", "canModifyUser",
             "extractUserIdFromToken"},
     u \in UnitUsers, i \in UnitIds}
  \cup {UnitCase("canAccessResource", u, i, {}, o, NoHeader) :
     u \in UnitUsers, i \in UnitIds,
     o \in [requireOwnership : BOOLEAN, allowAdmin : BOOLEAN, allowOwner : {TRUE}]}
  \cup {UnitCase(mw, NoClaim, Undefined, {}, DefaultOpts, h) :
     mw \in {"authenticateToken", "verifyToken"}, h \in AuthHeaders}
  \cup {[UnitCase("requirePermission", u, Undefined, {}, DefaultOpts, NoHeader)
            EXCEPT !.permission = p] :
     u \in UnitUsers, p \in Permission}
  \cup {[UnitCase("requireResourcePermission", u, i, {}, o, NoHeader)
            EXCEPT !.permission = p] :
     u \in UnitUsers, i \in UnitIds, p \in Permission,
     o \in [requireOwnership : {TRUE}, allowAdmin : {TRUE}, allowOwner : BOOLEAN]}
  \cup {[UnitCase(mw, NoClaim, Undefined, {}, DefaultOpts, NoHeader)
            EXCEPT !.err = e] :
     mw \in {"errorHandler", "asyncHandler"},
     e \in {NoError,
            AppError("Access token is required", 401),
            AppError("Failed to create user", 500),
            NotFoundError("User not found"),
            [ForeignError("SyntaxError", "Unexpected token in JSON")
               EXCEPT !.statusCode = 400],
            ForeignError("Error", "connect ECONNREFUSED 10.0.0.5:5432"),
            ForeignError("TypeError", "Cannot read properties of undefined"),
            ForeignError("PrismaClientValidationError", "Invalid invocation"),
            ForeignError("PrismaClientInitializationError", "Can not reach database")}
          \cup {[ForeignError("PrismaClientKnownRequestError", "Prisma failure")
                   EXCEPT !.code = c] : c \in {"P2002", "P2025", "P2003", "P1001"}}}

UnitInit ==
  /\ nodeEnv \in {"production", "development"}
  /\ users = InitUsers
  /\ now \in 0..MaxTime
  /\ hits = [c \in Categories |-> [k \in Clients |-> 0]]
  /\ served = 0
  /\ req = Idle
  /\ unit \in UnitCases
  /\ flight = NoFlight
  /\ tally = NoTally
  /\ auth = NoAuth
  /\ stats = NoStats

UnitReady(mw) == unit.mw = mw /\ ~unit.called

UnitGuard(mw, error) ==
  /\ UnitReady(mw)
  /\ unit' = [unit EXCEPT !.called = TRUE, !.next = error, !.nextCalled = TRUE]
  /\ UNCHANGED <<nodeEnv, users, now, hits, served, req, flight, tally, auth, stats>>

UnitRequireRole == UnitGuard("requireRole", requireRole(unit.roles, unit.user))

UnitRequireAdmin == UnitGuard("requireAdmin", requireAdmin(unit.user))

UnitRequireUser == UnitGuard("requireUser", requireUser(unit.user))

UnitRequireOwnershipOrAdmin ==
  UnitGuard("requireOwnershipOrAdmin", requireOwnershipOrAdmin(unit.user, unit.id))

UnitCanAccessResource ==
  UnitGuard("canAccessResource",
            canAccessResource(unit.opts.requireOwnership, unit.opts.allowAdmin,
                              unit.user, unit.id))

UnitCanAccessOwnProfile ==
  UnitGuard("canAccessOwnProfile", canAccessOwnProfile(unit.user, unit.id))

UnitCanModifyUser == UnitGuard("canModifyUser", canModifyUser(unit.user, unit.id))

UnitExtractUserIdFromToken ==
  /\ UnitReady("extractUserIdFromToken")
  /\ LET x == extractUserIdFromToken(unit.user, unit.id) IN
       unit' = [unit EXCEPT !.called = TRUE, !.next = x.next, !.idAfter = x.id,
                            !.userAfter = x.user, !.nextCalled = TRUE]
  /\ UNCHANGED <<nodeEnv, users, now, hits, served, req, flight, tally, auth, stats>>

UnitAuthenticateToken ==
  /\ UnitReady("authenticateToken")
  /\ LET a == authenticateToken(unit.user, unit.authHeader, now) IN
       unit' = [unit EXCEPT !.called = TRUE, !.next = a.next, !.userAfter = a.user,
                            !.nextCalled = TRUE]
  /\ UNCHANGED <<nodeEnv, users, now, hits, served, req, flight, tally, auth, stats>>

\* verifyToken(token) on the token of a Bearer header: next records the
\* AppError it throws, userAfter the payload it returns.
UnitVerifyToken ==
  /\ UnitReady("verifyToken")
  /\ unit.authHeader.scheme = "Bearer "
  /\ unit.authHeader.token.shape # "empty"
  /\ LET v == verifyToken(unit.authHeader.token, now) IN
       unit' = [unit EXCEPT !.called = TRUE, !.next = v.threw, !.userAfter = v.payload]
  /\ UNCHANGED <<nodeEnv, users, now, hits, served, req, flight, tally, auth, stats>>

UnitRequirePermission ==
  UnitGuard("requirePermission", requirePermission(unit.permission, unit.user))

UnitRequireResourcePermission ==
  UnitGuard("requireResourcePermission",
            requireResourcePermission(unit.permission, unit.opts.allowOwner,
                                      unit.user, unit.id))

\* errorHandler that answers as in development whatever the environment.
UnitErrorHandlerVerbose ==
  /\ UnitReady("errorHandler")
  /\ unit.err # NoError
  /\ unit' = [unit EXCEPT !.called = TRUE,
                          !.res = errorHandler(unit.err, "development"),
                          !.sent = @ + 1]
  /\ UNCHANGED <<nodeEnv, users, now, hits, served, req, flight, tally, auth, stats>>

\* errorHandler(error, req, res, next) on a mock response: one
\* res.status().json() and no call of next.
UnitErrorHandler ==
  /\ UnitReady("errorHandler")
  /\ unit.err # NoError
  /\ unit' = [unit EXCEPT !.called = TRUE, !.res = errorHandler(unit.err, nodeEnv),
                          !.sent = @ + 1]
  /\ UNCHANGED <<nodeEnv, users, now, hits, served, req, flight, tally, auth, stats>>

\* asyncHandler without its catch: the rejection is lost.
UnitAsyncHandlerSwallows ==
  /\ UnitReady("asyncHandler")
  /\ unit' = [unit EXCEPT !.called = TRUE]
  /\ UNCHANGED <<nodeEnv, users, now, hits, served, req, flight, tally, auth, stats>>

\* asyncHandler(fn)(req, res, next) where fn resolves (err = NoError) or
\* rejects with err: Promise.resolve(fn(req, res, next)).catch(next).
UnitAsyncHandler ==
  /\ UnitReady("asyncHandler")
  /\ unit' = [unit EXCEPT !.called = TRUE, !.next = unit.err,
                          !.nextCalled = (unit.err # NoError)]
  /\ UNCHANGED <<nodeEnv, users, now, hits, served, req, flight, tally, auth, stats>>

UnitNext ==
  \/ UnitRequirePermission
  \/ UnitRequireResourcePermission
  \/ UnitErrorHandler
  \/ UnitAsyncHandler
  \/ UnitRequireRole
  \/ UnitRequireAdmin
  \/ UnitRequireUser
  \/ UnitRequireOwnershipOrAdmin
  \/ UnitCanAccessResource
  \/ UnitCanAccessOwnProfile
  \/ UnitCanModifyUser
  \/ UnitExtractUserIdFromToken
  \/ UnitAuthenticateToken
  \/ UnitVerifyToken

UnitSpec == UnitInit /\ [][UnitNext]_vars

(***************************************************************************)
(* LimitSpec: the rate limiters under requests that are in flight side by  *)
(* side.  A request passes app.use(limiter), then (after body parsing) the *)
(* limiter of its route; each limiter increments its own store in one      *)
(* step.  The handlers behind the limiter are seen by the status with      *)
(* which the response finishes.                                            *)
(***************************************************************************)
MaxArrivals == 2
MaxAuthRequests == 2

\* What one client has done in the running windows: nothing yet, all but one
\* unit of a category's quota used by requests already answered, or (auth)
\* four logins still being handled.
PreloadHits(preload, c, env) ==
  CASE preload = c -> Max(c, env) - 1
    [] c = "auth" /\ preload \in {"authFailed", "authInFlight"} -> AuthMax - 1
    [] OTHER -> 0

PreloadCount(preload, c, env) ==
  CASE preload = c -> [NoCount EXCEPT !.passed = Max(c, env) - 1]
    [] c = "auth" /\ preload = "authFailed" ->
         [NoCount EXCEPT !.passed = AuthMax - 1, !.failed = AuthMax - 1]
    [] c = "auth" /\ preload = "authInFlight" -> [NoCount EXCEPT !.passed = AuthMax - 1]
    [] OTHER -> NoCount

LimitInit ==
  /\ nodeEnv = "production"
  /\ users = InitUsers
  /\ now = 0
  /\ served = 0
  /\ auth = NoAuth
  /\ stats = NoStats
  /\ req = Idle
  /\ unit = UnitIdle
  /\ \E preload \in {"none", "global", "api", "authFailed", "authInFlight"} :
       /\ hits = [c \in Categories |-> [k \in LimitClients |->
                    IF k = "ip1" THEN PreloadHits(preload, c, nodeEnv) ELSE 0]]
       /\ flight = [NoFlight EXCEPT ![<<"handling", "auth", "ip1">>] =
                      IF preload = "authInFlight" THEN AuthMax - 1 ELSE 0]
       /\ tally = [c \in Categories |-> [k \in LimitClients |->
                      IF k = "ip1" THEN PreloadCount(preload, c, nodeEnv) ELSE NoCount]]

\* One limiter handling one request: the store's increment, then the decision.
Decide(c, k) ==
  LET h == Increment(hits, c, k)
      totalHits == h[c][k]
      rejected == totalHits > Max(c, nodeEnv)
  IN [hits |-> h,
      rejected |-> rejected,
      tally |-> [tally EXCEPT
                   ![c][k].passed = IF rejected THEN @ ELSE @ + 1,
                   ![c][k].rejected = IF rejected THEN @ + 1 ELSE @]]

\* A request of client k for an endpoint of category c reaches app.use(limiter).
LimitArrive(k, c) ==
  /\ served < MaxArrivals
  /\ served' = served + 1
  /\ LET d == Decide("global", k) IN
       /\ hits' = d.hits
       /\ tally' = d.tally
       /\ flight' = IF d.rejected
                      THEN [flight EXCEPT ![<<"refused", c, k>>] = @ + 1]
                    ELSE [flight EXCEPT ![<<"parsing", c, k>>] = @ + 1]
  /\ UNCHANGED <<nodeEnv, users, now, req, unit, auth, stats>>

\* The request reaches the limiter of its route.
LimitRoute(k, c) ==
  /\ flight[<<"parsing", c, k>>] > 0
  /\ LET d == Decide(c, k) IN
       /\ hits' = d.hits
       /\ tally' = d.tally
       /\ flight' = [flight EXCEPT ![<<"parsing", c, k>>] = @ - 1,
                                   ![<<"handling", c, k>>] =
                                      IF d.rejected THEN @ ELSE @ + 1,
                                   ![<<"refused", c, k>>] =
                                      IF d.rejected THEN @ + 1 ELSE @]
  /\ UNCHANGED <<nodeEnv, users, now, served, req, unit, auth, stats>>

\* MemoryStore.decrement: a count that is there is lowered by one.
Decrement(h, category, client) ==
  [h EXCEPT ![category][client] = IF @ > 0 THEN @ - 1 ELSE @]

\* response.on('finish') of a request the route's limiter let through.
LimitFinish(k, c, stage, status) ==
  /\ stage \in {"handling", "stale"}
  /\ flight[<<stage, c, k>>] > 0
  /\ flight' = [flight EXCEPT ![<<stage, c, k>>] = @ - 1]
  /\ hits' = IF SkipSuccessfulRequests(c) /\ requestWasSuccessful(status)
               THEN Decrement(hits, c, k) ELSE hits
  /\ tally' = IF SkipSuccessfulRequests(c) /\ ~requestWasSuccessful(status)
                   /\ stage = "handling"
                THEN [tally EXCEPT ![c][k].failed = @ + 1]
              ELSE tally
  /\ UNCHANGED <<nodeEnv, users, now, served, req, unit, auth, stats>>

\* windowMs of limiter c has elapsed: its store forgets every key.
LimitWindow(c) ==
  /\ \E k \in LimitClients : hits[c][k] > 0 \/ tally[c][k] # NoCount
  /\ hits' = [hits EXCEPT ![c] = [k \in LimitClients |-> 0]]
  /\ tally' = [tally EXCEPT ![c] = [k \in LimitClients |-> NoCount]]
  /\ flight' = [x \in Slots |->
                  IF x[2] # c THEN flight[x]
                  ELSE IF x[1] = "handling" THEN 0
                  ELSE IF x[1] = "stale"
                    THEN flight[x] + flight[<<"handling", c, x[3]>>]
                  ELSE flight[x]]
  /\ UNCHANGED <<nodeEnv, users, now, served, req, unit, auth, stats>>

LimitNext ==
  \/ \E k \in LimitClients, c \in RouteCategories : LimitArrive(k, c)
  \/ \E k \in LimitClients, c \in RouteCategories : LimitRoute(k, c)
  \/ \E k \in LimitClients, c \in RouteCategories, stage \in Stages,
        status \in {200, 401} : LimitFinish(k, c, stage, status)
  \/ \E c \in Categories : LimitWindow(c)

LimitSpec == LimitInit /\ [][LimitNext]_vars

(***************************************************************************)
(* The public routes of the auth router (AuthSpec).  POST /register and    *)
(* POST /login run limiter, authRateLimit, validateContentType, validate   *)
(* and the controller.  A request gives way to other requests at its       *)
(* awaits: the lookup of the email rule, the lookup of the service, and    *)
(* prisma.user.create.                                                      *)
(***************************************************************************)
isEmail(email) == email \in {"user@x", "New@x", "new@x", "admin@x"}

\* normalizeEmail() lower-cases the address.
normalizeEmail(email) == IF email = "New@x" THEN "new@x" ELSE email

\* prisma.user.findUnique({where: {email}})
findByEmail(table, email) ==
  IF \E i \in DOMAIN table : table[i].email = email
    THEN table[CHOOSE i \in DOMAIN table : table[i].email = email]
    ELSE Null

sanitizeUser(user) == [f \in DOMAIN user \ {"password"} |-> user[f]]

\* validationRules.email: isEmail, normalizeEmail, then the lookup, whose
\* verdict depends on req.path ('/register' or '/login' inside the router).
validEmail(table, path, email) ==
  LET existingUser == findByEmail(table, normalizeEmail(email)) IN
    /\ isEmail(email)
    /\ ~(path = "/register" /\ existingUser # Null)
    /\ ~(path = "/login" /\ existingUser = Null)

createTokenPayload(user) ==
  [userId |-> user.id, email |-> user.email, role |-> user.role]

\* A token issued with the lifetime of a refresh token (seven days).
generateTokenSevenDays(payload, t) ==
  [shape |-> "jwt", secret |-> "config",
   payload |-> [userId |-> payload.userId, email |-> payload.email,
                role |-> payload.role, iat |-> t, exp |-> t + 7 * TokenTtl]]

\* jwt.sign(payload, config.jwtSecret, {expiresIn: config.jwtExpiresIn}) at time t
generateToken(payload, t) ==
  [shape |-> "jwt", secret |-> "config",
   payload |-> [userId |-> payload.userId, email |-> payload.email,
                role |-> payload.role, iat |-> t, exp |-> t + TokenTtl]]

\* createUser from the hashing on, and the rest of the register controller.
\* prisma.user.create throws when the email is in the table (the column is
\* unique) or when the role is no value of the enum; createUser turns what
\* it throws into an AppError with status 500.  "n1" is the id the database
\* gives the new row.
createUser(table, userData, t) ==
  LET user == [id |-> "n1", email |-> userData.email, fullName |-> "n0",
               password |-> hashPassword(userData.password),
               role |-> IF userData.role # Undefined THEN userData.role ELSE "USER",
               status |-> "ACTIVE"]
  IN IF findByEmail(table, user.email) # Null \/ user.role \notin Roles
       THEN [threw |-> AppError("Failed to create user", 500), table |-> table,
             data |-> Undefined]
       ELSE [threw |-> NoError, table |-> (user.id :> user) @@ table,
             data |-> [user |-> sanitizeUser(user),
                       token |-> generateToken(createTokenPayload(user), t)]]

\* A login that looks at the password before it looks at the status.
loginPasswordFirst(table, email, password, t) ==
  LET user == findByEmail(table, email) IN
    IF user = Null \/ ~verifyPassword(password, user.password)
      THEN [threw |-> AppError("Invalid email or password", 401), data |-> Undefined]
    ELSE IF user.status # "ACTIVE"
      THEN [threw |-> AppError("Account is inactive. Please contact support.", 403),
            data |-> Undefined]
    ELSE [threw |-> NoError,
          data |-> [user |-> sanitizeUser(user),
                    token |-> generateToken(createTokenPayload(user), t)]]

\* The login controller.
login(table, email, password, t) ==
  LET user == findByEmail(table, email) IN
    IF user = Null
      THEN [threw |-> AppError("Invalid email or password", 401), data |-> Undefined]
    ELSE IF user.status # "ACTIVE"
      THEN [threw |-> AppError("Account is inactive. Please contact support.", 403),
            data |-> Undefined]
    ELSE IF ~verifyPassword(password, user.password)
      THEN [threw |-> AppError("Invalid email or password", 401), data |-> Undefined]
    ELSE [threw |-> NoError,
          data |-> [user |-> sanitizeUser(user),
                    token |-> generateToken(createTokenPayload(user), t)]]

\* The server with the seeded users, the client fresh or four failed
\* logins into the window of authRateLimit.
AuthInit ==
  /\ nodeEnv = "production"
  /\ users = InitUsers
  /\ now \in 0..MaxTime
  /\ \E failed \in {0, AuthMax - 1} :
       hits = [c \in Categories |->
                 [k \in Clients |-> IF c \in {"auth", "global"} THEN failed ELSE 0]]
  /\ served = 0
  /\ req = Idle
  /\ unit = UnitIdle
  /\ flight = NoFlight
  /\ tally = NoTally
  /\ auth = NoAuth
  /\ stats = NoStats

\* The response of slot s is sent; authRateLimit takes its count back when
\* the status is a success.
AuthRespond(s, h, response) ==
  /\ auth' = [auth EXCEPT ![s].phase = "done", ![s].res = response]
  /\ hits' = IF SkipSuccessfulRequests("auth") /\ requestWasSuccessful(response.status)
               THEN Decrement(h, "auth", "ip1")
               ELSE h

\* A request arrives and runs up to the first await of validate(): the
\* limiter of app.ts, authRateLimit, validateContentType.  A body that is
\* not sent as JSON is not parsed.  The bodies carry the email of the seeded
\* user, an address nobody has registered (written with a capital) or a
\* string that is no address; the seeded user's password (a strong one), a
\* weak one or the empty string; a registration may carry a role.
AuthArrive(s) ==
  /\ auth[s].phase \in {"idle", "done"}
  /\ served < MaxAuthRequests
  /\ served' = served + 1
  /\ \E route \in {"POST /api/auth/register", "POST /api/auth/login"},
        email \in {"user@x", "New@x", "nobody", Undefined},
        password \in {"Us3r!pass", "weak1", "", Undefined},
        role \in {Undefined, "ADMIN"}, json \in BOOLEAN :
       /\ route = "POST /api/auth/login" => role = Undefined
       /\ json <=> email # Undefined
       /\ json <=> password # Undefined
       /\ ~json => role = Undefined
       /\ LET r == [NoAuth[s] EXCEPT !.route = route, !.email = email,
                                    !.password = password, !.role = role,
                                    !.json = json]
              g == Increment(hits, "global", "ip1")
              a == Increment(g, "auth", "ip1")
              contentType == validateContentType("POST", json)
          IN IF g["global"]["ip1"] > Max("global", nodeEnv)
               THEN /\ hits' = g
                    /\ auth' = [auth EXCEPT ![s] =
                         [r EXCEPT !.phase = "done",
                                   !.res = LimitResponse(LimitMessage("global"),
                                                         RetryAfter("global"))]]
             ELSE IF a["auth"]["ip1"] > Max("auth", nodeEnv)
               THEN /\ hits' = a
                    /\ auth' = [auth EXCEPT ![s] =
                         [r EXCEPT !.phase = "done",
                                   !.res = LimitResponse(LimitMessage("auth"),
                                                         RetryAfter("auth"))]]
             ELSE IF contentType # NoError
               THEN /\ hits' = a
                    /\ auth' = [auth EXCEPT ![s] =
                         [r EXCEPT !.phase = "done",
                                   !.res = errorHandler(contentType, nodeEnv)]]
             ELSE /\ hits' = a
                  /\ auth' = [auth EXCEPT ![s] = [r EXCEPT !.phase = "validate"]]
  /\ UNCHANGED <<nodeEnv, users, now, req, unit, flight, tally, stats>>

\* validate(validationSets.register) or validate(validationSets.login): the
\* lookup of the email rule returns; the sanitized email replaces the one
\* in req.body.
AuthValidate(s) ==
  /\ auth[s].phase = "validate"
  /\ LET r == auth[s]
         \* validationSets.register: the email rule and the password rule
         \* (length, strength pattern, weak list); the full name and the
         \* birth date are taken to be valid.  validationSets.login: the
         \* email rule and notEmpty() of the password.
         valid == IF r.route = "POST /api/auth/register"
                    THEN validEmail(users, "/register", r.email)
                         /\ r.password = "Us3r!pass"
                    ELSE validEmail(users, "/login", r.email) /\ r.password # ""
     IN IF valid
          THEN /\ auth' = [auth EXCEPT ![s].phase = "service",
                                       ![s].email = normalizeEmail(r.email)]
               /\ hits' = hits
          ELSE AuthRespond(s, hits, ValidationResponse)
  /\ UNCHANGED <<nodeEnv, users, now, served, req, unit, flight, tally, stats>>

\* The controller up to the return of its lookup: register throws or goes
\* on to hash and create; login answers.
AuthService(s) ==
  /\ auth[s].phase = "service"
  /\ LET r == auth[s] IN
       IF r.route = "POST /api/auth/register"
         THEN IF findByEmail(users, r.email) # Null
                  THEN AuthRespond(s, hits,
                         errorHandler(AppError("User with this email already exists", 409),
                                      nodeEnv))
                  ELSE /\ auth' = [auth EXCEPT ![s].phase = "create"]
                       /\ hits' = hits
         ELSE LET out == login(users, r.email, r.password, now) IN
                IF out.threw # NoError
                  THEN AuthRespond(s, hits, errorHandler(out.threw, nodeEnv))
                  ELSE AuthRespond(s, hits,
                         SuccessResponse(200, "Login successful", out.data))
  /\ UNCHANGED <<nodeEnv, users, now, served, req, unit, flight, tally, stats>>

\* prisma.user.create returns; register answers.
AuthCreate(s) ==
  /\ auth[s].phase = "create"
  /\ LET out == createUser(users, auth[s], now) IN
       /\ users' = out.table
       /\ IF out.threw # NoError
            THEN AuthRespond(s, hits, errorHandler(out.threw, nodeEnv))
            ELSE AuthRespond(s, hits,
                   SuccessResponse(201, "User registered successfully", out.data))
  /\ UNCHANGED <<nodeEnv, now, served, req, unit, flight, tally, stats>>

\* An administrator blocks or deletes a user (both set the status to
\* INACTIVE), or unblocks one.
AdminSetsStatus(id, status) ==
  /\ id \in DOMAIN users
  /\ users[id].status # status
  /\ users' = updateUserStatus(users, id, status).table
  /\ UNCHANGED <<nodeEnv, now, hits, served, req, unit, flight, tally, auth, stats>>

AuthNext ==
  \/ \E s \in DOMAIN auth : AuthArrive(s)
  \/ \E s \in DOMAIN auth : AuthValidate(s)
  \/ \E s \in DOMAIN auth : AuthService(s)
  \/ \E s \in DOMAIN auth : AuthCreate(s)
  \/ \E id \in {UserId, "n1"}, status \in Statuses : AdminSetsStatus(id, status)

AuthSpec == AuthInit /\ [][AuthNext]_vars

(***************************************************************************)
(* UserService.getUserStats beside the writers of the users table          *)
(* (StatsSpec): its five prisma.user.count queries are started together by *)
(* Promise.all and answered by the database one by one, in any order,      *)
(* while a registration that has passed validation creates its row and an  *)
(* administrator blocks, unblocks or deletes users.                        *)
(***************************************************************************)
MaxStatsRequests == 2

\* prisma.user.count({where}) for the five filters of getUserStats
count(table, where) ==
  Cardinality({i \in DOMAIN table :
                 CASE where = "total" -> TRUE
                   [] where = "active" -> table[i].status = "ACTIVE"
                   [] where = "inactive" -> table[i].status = "INACTIVE"
                   [] where = "admins" -> table[i].role = "ADMIN"
                   [] where = "users" -> table[i].role = "USER"})

StatsInit ==
  /\ nodeEnv = "production"
  /\ users = InitUsers
  /\ now = 0
  /\ hits = [c \in Categories |-> [k \in Clients |-> 0]]
  /\ served = 0
  /\ req = Idle
  /\ unit = UnitIdle
  /\ flight = NoFlight
  /\ tally = NoTally
  /\ \E pending \in BOOLEAN, role \in {Undefined, "ADMIN"} :
       auth = IF pending
                THEN [NoAuth EXCEPT ![1] =
                        [phase |-> "create", route |-> "POST /api/auth/register",
                         email |-> "new@x", password |-> "Us3r!pass",
                         role |-> role, json |-> TRUE, res |-> NoResponse]]
              ELSE NoAuth
  /\ stats = NoStats

\* getUserStats starts: Promise.all issues the five count queries.
GetUserStatsStart ==
  /\ stats.phase \in {"idle", "done"}
  /\ served < MaxStatsRequests
  /\ served' = served + 1
  /\ stats' = [NoStats EXCEPT !.phase = "counting", !.pending = DOMAIN NoStats.result]
  /\ UNCHANGED <<nodeEnv, users, now, hits, req, unit, flight, tally, auth>>

\* The database answers one of the count queries from the table as it is
\* now; with the last answer Promise.all resolves and getUserStats returns
\* the five numbers.
GetUserStatsCount(q) ==
  /\ stats.phase = "counting"
  /\ q \in stats.pending
  /\ stats' = [stats EXCEPT !.pending = @ \ {q}, !.result[q] = count(users, q),
                            !.phase = IF stats.pending = {q} THEN "done" ELSE @]
  /\ UNCHANGED <<nodeEnv, users, now, hits, served, req, unit, flight, tally, auth>>

StatsNext ==
  \/ GetUserStatsStart
  \/ \E q \in DOMAIN NoStats.result : GetUserStatsCount(q)
  \/ \E s \in DOMAIN auth : AuthCreate(s)
  \/ \E id \in {UserId, "n1"}, status \in Statuses : AdminSetsStatus(id, status)

StatsSpec == StatsInit /\ [][StatsNext]_vars

(***************************************************************************)
(* Properties of the route chains (Spec) and of the middleware functions   *)
(* (UnitSpec).                                                             *)
(***************************************************************************)
IsPrefix(s, t) == Len(s) <= Len(t) /\ \A i \in 1..Len(s) : s[i] = t[i]

InFlight == req.phase # "idle"

Controller(route) == Chain(route)[Len(Chain(route))]

PassedLimiters ==
  req.rejectedBy \notin {"limiter", "apiRateLimit", "adminRateLimit"}

Answered == req.phase = "done"

\* C1: in every route chain the steps run in the declared order and the first
\* step that rejects (next(error) or a response of its own) ends the chain: no
\* later guard, validator or controller runs, a rejection by a guard or
\* validator leaves no service call and no change of the users table, and the
\* request is answered exactly once (by the rejecting step or by errorHandler).
C1_FailFastState ==
  InFlight =>
    /\ IsPrefix(req.ran, Chain(req.route))
    /\ req.sent <= 1
    /\ Answered <=> req.sent = 1
    /\ req.handled <=> (Answered /\ req.err # NoError)
    /\ req.rejectedBy # "-" =>
         /\ req.phase \in {"error", "done"}
         /\ req.ran # <<>>
         /\ req.ran[Len(req.ran)] = req.rejectedBy
    /\ (req.rejectedBy # "-" /\ req.rejectedBy # Controller(req.route)) =>
         /\ req.calls = {}
         /\ users = req.before

C1_FailFastStep ==
  (InFlight /\ req.rejectedBy # "-" /\ req'.phase # "idle") =>
    /\ req'.ran = req.ran
    /\ req'.calls = req.calls
    /\ req'.rejectedBy = req.rejectedBy
    /\ req'.sent \in {req.sent, 1}
    /\ users' = users

C1_FailFast == []C1_FailFastState /\ [][C1_FailFastStep]_vars

\* A guard in the middle of a chain rejected, errorHandler answered, and the
\* controller never ran.
C1_Witness ==
  /\ Answered
  /\ req.route = "PATCH /api/users/:id/block"
  /\ req.rejectedBy = "requireAdmin"
  /\ req.handled
  /\ req.res.status = 403
  /\ req.sent = 1
  /\ Len(req.ran) < Len(Chain(req.route))

UnitCalled(mw) == unit.mw = mw /\ unit.called

\* The token of the header is a token this server signed, not yet expired at t.
Verifies(authHeader, t) ==
  /\ authHeader.scheme = "Bearer "
  /\ authHeader.token.shape = "jwt"
  /\ authHeader.token.secret = "config"
  /\ t < authHeader.token.payload.exp

\* C2: authenticateToken passes, with the decoded claim attached as req.user,
\* iff the header starts with 'Bearer ' and the token verifies against the
\* configured secret; in every other case it attaches nothing and rejects with
\* 401: 'Access token is required' when the header yields no token (absent,
\* wrong prefix, nothing after the prefix), 'Invalid token' otherwise, any
\* other exception of the verification included.
C2_AuthenticateToken ==
  UnitCalled("authenticateToken") =>
    /\ unit.next = NoError <=> Verifies(unit.authHeader, now)
    /\ Verifies(unit.authHeader, now) => unit.userAfter = unit.authHeader.token.payload
    /\ ~Verifies(unit.authHeader, now) =>
         /\ unit.userAfter = NoClaim
         /\ unit.next.statusCode = 401
         /\ unit.next.message =
              IF HasToken(unit.authHeader) THEN "Invalid token"
              ELSE "Access token is required"

\* C3: a token whose exp is in the past fails with 401 'Token expired' in both
\* authenticateToken and verifyToken, and is never reported as 'Invalid token'
\* (stated for the tokens this server signed, where the signature is valid).
C3_TokenExpired ==
  /\ \/ UnitCalled("authenticateToken")
     \/ UnitCalled("verifyToken")
  /\ unit.authHeader.scheme = "Bearer "
  /\ unit.authHeader.token.shape = "jwt"
  /\ unit.authHeader.token.secret = "config"
  /\ now >= unit.authHeader.token.payload.exp
  => /\ unit.next.statusCode = 401
     /\ unit.next.message = "Token expired"

\* C4: requireRole(allowList) passes iff req.user.role is in allowList; an
\* identified request with another role is rejected 403 'Insufficient
\* permissions'; a request with no identity is rejected 401 'Authentication
\* required'.  requireAdmin rejects every USER claim and passes every ADMIN
\* claim; requireUser passes both.
C4_RequireRole ==
  /\ UnitCalled("requireRole") =>
       /\ unit.next = NoError <=> (unit.user # NoClaim /\ unit.user.role \in unit.roles)
       /\ (unit.user # NoClaim /\ unit.user.role \notin unit.roles) =>
            /\ unit.next.statusCode = 403
            /\ unit.next.message = "Insufficient permissions"
       /\ unit.user = NoClaim =>
            /\ unit.next.statusCode = 401
            /\ unit.next.message = "Authentication required"
  /\ UnitCalled("requireAdmin") =>
       /\ unit.user.role = "USER" =>
            unit.next.statusCode = 403 /\ unit.next.message = "Insufficient permissions"
       /\ unit.user.role = "ADMIN" => unit.next = NoError
       /\ unit.user = NoClaim => unit.next.statusCode = 401
  /\ UnitCalled("requireUser") =>
       unit.next = NoError <=> unit.user # NoClaim

\* requireRole('ADMIN') rejected a USER claim with 403.
C4_Witness ==
  /\ UnitCalled("requireRole")
  /\ unit.roles = {"ADMIN"}
  /\ unit.user.role = "USER"
  /\ unit.next.statusCode = 403

OwnershipGuards == {"requireOwnershipOrAdmin", "canAccessOwnProfile", "canAccessResource"}

OwnershipCase ==
  /\ unit.mw \in OwnershipGuards
  /\ unit.called
  /\ unit.user # NoClaim
  /\ unit.opts = DefaultOpts

C9_ExtractUserId ==
  UnitCalled("extractUserIdFromToken") =>
    /\ unit.userAfter = unit.user
    /\ unit.user # NoClaim =>
         /\ unit.next = NoError
         /\ unit.id = Me => unit.idAfter = unit.user.userId
         /\ unit.id # Me => unit.idAfter = unit.id
    /\ unit.user = NoClaim =>
         /\ unit.next.statusCode = 401
         /\ unit.idAfter = unit.id

\* The parameter "me" was rewritten to the caller's id.
C9_Witness ==
  /\ UnitCalled("extractUserIdFromToken")
  /\ unit.id = Me
  /\ unit.user # NoClaim
  /\ unit.idAfter = unit.user.userId
  /\ unit.idAfter # Me

\* The request carries a token that verified: authenticateToken attached its claim.
Identified == req.user # NoClaim

\* C6: a request with a valid USER token to an admin-only endpoint is answered
\* 403 with a message containing 'Admin privileges required', never 401, and
\* the business operation is not executed; the same request with no token is
\* answered 401 (stated for the requests the rate limiters let through).
C6_AdminOnly ==
  (Answered /\ req.route \in AdminRoutes /\ PassedLimiters) =>
    /\ (Identified /\ req.user.role = "USER") =>
         /\ req.res.status = 403
         /\ req.res.message = AdminOnlyMessage
         /\ req.calls = {}
         /\ users = req.before
    /\ req.authHeader.scheme = "absent" => req.res.status = 401

\* C7: on PATCH /api/users/:id a non-admin owner whose payload has a field
\* outside {fullName, birthDate, email} is rejected 403 with a message naming
\* those fields and the record is not changed; an admin sending the same
\* payload for a stored user is answered 200 and the fields are applied.
C7_RestrictedFields ==
  LET restricted == ObjectKeys(req.body) \ AllowedFields IN
  (Answered /\ req.route = "PATCH /api/users/:id" /\ PassedLimiters /\ req.json
     /\ Identified /\ restricted # {}) =>
    /\ (req.user.role = "USER" /\ req.id = req.user.userId) =>
         /\ req.res.status = 403
         /\ req.res.fields = restricted
         /\ users = req.before
    /\ (req.user.role = "ADMIN" /\ req.id \in DOMAIN req.before) =>
         /\ req.res.status = 200
         /\ req.id \in DOMAIN users
         /\ \A f \in restricted : users[req.id][f] = req.body[f]

SelfActionRoutes ==
  {"PATCH /api/users/:id/block", "PATCH /api/users/:id/unblock", "DELETE /api/users/:id"}

\* C8: an admin's block, unblock or delete request whose target id is the
\* admin's own id is answered 400, never 403 or 200, and the users table is
\* left as it was.
C8_SelfAction ==
  (Answered /\ req.route \in SelfActionRoutes /\ PassedLimiters
     /\ Identified /\ req.user.role = "ADMIN" /\ req.id = req.user.userId) =>
    /\ req.res.status = 400
    /\ users = req.before

\* C10: GET /api/users/me with any valid token passes authenticateToken,
\* extractUserIdFromToken and canAccessOwnProfile and is answered 200 with the
\* caller's own profile; the controller's target id is claim.userId.
C10_GetMe ==
  (Answered /\ req.route = "GET /api/users/me" /\ PassedLimiters /\ Identified) =>
    /\ req.ran = Chain(req.route)
    /\ req.res.status = 200
    /\ req.res.data = req.user.userId
    /\ req.calls = {<<"findById", req.user.userId>>}

Counting == {c \in Categories : ~SkipSuccessfulRequests(c)}

\* C11 as claimed: for each category and each client at most max requests
\* are let through within one window.
C11_AtMostMaxAsClaimed ==
  \A c \in Categories, k \in LimitClients : tally[c][k].passed <= Max(c, nodeEnv)

\* C11 amended: every limiter increments the client's counter exactly once
\* per request, in one step, and lets the request through iff the counter
\* after the increment is at most max.  For the global, api and admin
\* limiters the counter is the number of requests that reached the limiter in
\* the window, so at most max of them pass, whatever the interleaving.  The
\* auth limiter takes a unit back for each response that finishes with a
\* success status, so its counter is at most that number and more than max
\* requests can pass it within one window.
C11_CountState ==
  \A c \in Categories, k \in LimitClients :
    /\ hits[c][k] <= tally[c][k].passed + tally[c][k].rejected
    /\ c \in Counting =>
         /\ hits[c][k] = tally[c][k].passed + tally[c][k].rejected
         /\ tally[c][k].passed <= Max(c, nodeEnv)

C11_CountStep ==
  \A c \in Categories, k \in LimitClients :
    /\ tally'[c][k].passed > tally[c][k].passed =>
         /\ tally'[c][k].passed = tally[c][k].passed + 1
         /\ hits'[c][k] = hits[c][k] + 1
         /\ hits'[c][k] <= Max(c, nodeEnv)
    /\ tally'[c][k].rejected > tally[c][k].rejected =>
         /\ tally'[c][k].rejected = tally[c][k].rejected + 1
         /\ hits'[c][k] = hits[c][k] + 1
         /\ hits'[c][k] > Max(c, nodeEnv)

C11_Count == []C11_CountState /\ [][C11_CountStep]_vars

\* The api limiter let max requests of one client through and rejected the
\* next one, while another request of that client was still being handled.
C11_Witness ==
  /\ tally["api"]["ip1"].passed = ApiMax
  /\ tally["api"]["ip1"].rejected = 1
  /\ hits["api"]["ip1"] = ApiMax + 1
  /\ flight[<<"handling", "api", "ip1">>] > 0

LimiterSteps == {"limiter", "authRateLimit", "apiRateLimit", "adminRateLimit"}

StepCategory(step) ==
  CASE step = "limiter" -> "global"
    [] step = "authRateLimit" -> "auth"
    [] step = "apiRateLimit" -> "api"
    [] step = "adminRateLimit" -> "admin"

LastRan == req.ran[Len(req.ran)]

\* C12: a limiter with max = N rejects the (N+1)-th request of a client within
\* a window with status 429 and a retryAfter hint in the body, and lets a
\* request through when its count, the window having elapsed, is within N.
C12_RetryAfter ==
  (InFlight /\ req.ran # <<>> /\ LastRan \in LimiterSteps /\ req.phase # "error") =>
    LET c == StepCategory(LastRan) IN
      IF hits[c][req.client] > Max(c, nodeEnv)
        THEN /\ Answered
             /\ req.rejectedBy = LastRan
             /\ req.res.status = 429
             /\ req.res.retryAfter # ""
        ELSE req.phase = "chain" /\ req.rejectedBy = "-"

Refused(c, k) == flight'[<<"refused", c, k>>] > flight[<<"refused", c, k>>]

Decided(c, k) ==
  tally'[c][k].passed + tally'[c][k].rejected
    = tally[c][k].passed + tally[c][k].rejected + 1

\* C13 as claimed: the buckets are independent, so a client that has not
\* exhausted a category's own quota is never answered 429 on that category's
\* endpoints.
C13_OwnQuotaAsClaimed ==
  [][\A c \in RouteCategories, k \in LimitClients :
       Refused(c, k) => hits[c][k] >= Max(c, nodeEnv)]_vars

\* C13 amended: the count of a limiter for a client changes only by a request
\* of that client reaching that limiter, by the finish of such a request, or
\* by that limiter's own window; requests counted by another limiter or for
\* another client leave it alone.  A request on a category's endpoints is
\* answered 429 only by that category's limiter, when the client's count there
\* exceeds the category's max, or by the global limiter, which counts the
\* requests to every endpoint and may reject while the category's own quota is
\* not used up.
C13_IndependentStep ==
  /\ \A c \in Categories, k \in LimitClients :
       hits'[c][k] # hits[c][k] =>
         \/ Decided(c, k) /\ hits'[c][k] = hits[c][k] + 1
         \/ /\ c \in RouteCategories
            /\ \E stage \in {"handling", "stale"} :
                 flight'[<<stage, c, k>>] = flight[<<stage, c, k>>] - 1
            /\ hits'[c][k] = hits[c][k] - 1
         \/ hits'[c] = [j \in LimitClients |-> 0]
  /\ \A c \in RouteCategories, k \in LimitClients :
       Refused(c, k) =>
         \/ Decided(c, k) /\ hits'[c][k] > Max(c, nodeEnv)
         \/ Decided("global", k) /\ hits'["global"][k] > Max("global", nodeEnv)
                                 /\ hits'[c][k] = hits[c][k]

C13_Independent == [][C13_IndependentStep]_vars

\* The global limiter answered 429 to a request for an admin endpoint of a
\* client that has used nothing of the admin quota.
C13_Witness ==
  /\ flight[<<"refused", "admin", "ip1">>] = 1
  /\ hits["admin"]["ip1"] = 0
  /\ tally["global"]["ip1"].rejected = 1
  /\ hits["global"]["ip1"] > Max("global", nodeEnv)

AuthRejects(k) ==
  /\ Decided("auth", k)
  /\ tally'["auth"][k].rejected > tally["auth"][k].rejected

AuthInFlight(k) == flight[<<"handling", "auth", k>>]

\* C14 as claimed: the auth limiter does not count requests that succeeded: a
\* client none of whose login/register requests of the window has failed is
\* never rejected by authRateLimit, however many such requests it sends.
C14_SkipSuccessAsClaimed ==
  [][\A k \in LimitClients :
       AuthRejects(k) => tally["auth"][k].failed + tally["auth"][k].rejected > 0]_vars

\* C14 amended: authRateLimit counts a request when it arrives and takes the
\* unit back when its response finishes with a success status.  The client's
\* count is therefore at most its failed and rejected auth requests of the
\* window plus its auth requests still being handled, and a request is
\* rejected only when those number at least 5: a client whose requests all
\* succeed is never rejected as long as fewer than 5 of them are in flight at
\* once.  A response that finishes with a failure status leaves the count as
\* it is, so every failed request consumes one unit.
C14_SkipSuccessState ==
  \A k \in LimitClients :
    hits["auth"][k] <=
      tally["auth"][k].failed + tally["auth"][k].rejected + AuthInFlight(k)

C14_SkipSuccessStep ==
  \A k \in LimitClients :
    /\ AuthRejects(k) =>
         tally["auth"][k].failed + tally["auth"][k].rejected + AuthInFlight(k)
           >= AuthMax
    /\ tally'["auth"][k].failed > tally["auth"][k].failed =>
         hits'["auth"][k] = hits["auth"][k]
    /\ hits'["auth"][k] < hits["auth"][k] =>
         \/ hits'["auth"][k] = hits["auth"][k] - 1
         \/ hits'["auth"] = [j \in LimitClients |-> 0]

C14_SkipSuccess == []C14_SkipSuccessState /\ [][C14_SkipSuccessStep]_vars

\* Successful requests gave their units back: more than 5 auth requests of
\* one client have passed within one window and none was rejected.
C14_Witness ==
  /\ tally["auth"]["ip1"].passed > AuthMax
  /\ tally["auth"]["ip1"].rejected = 0
  /\ tally["auth"]["ip1"].failed = 0
  /\ hits["auth"]["ip1"] <= AuthMax

(***************************************************************************)
(* Properties of the public auth routes (AuthSpec).                        *)
(***************************************************************************)
AuthSlots == DOMAIN auth

Register == "POST /api/auth/register"

LoginRoute == "POST /api/auth/login"

\* Slot s sends its response in this step, from one of the listed awaits.
Answers(s, route, phases) ==
  /\ auth[s].route = route
  /\ auth[s].phase \in phases
  /\ auth'[s].phase = "done"

\* C15: a user created through POST /api/auth/register has role USER whatever
\* role the body carries: every account that was not seeded has role USER,
\* and the user and the token a registration returns have role USER.
C15_RegisterRole ==
  /\ \A i \in DOMAIN users \ StoredIds : users[i].role = "USER"
  /\ \A s \in AuthSlots :
       auth[s].res.success /\ auth[s].route = Register =>
         /\ auth[s].res.data.user.role = "USER"
         /\ auth[s].res.data.token.payload.role = "USER"

\* C16: a failed login does not reveal whether the email exists: a login with
\* a well-formed email nobody has registered, and a login with the email of an
\* active account and a wrong password, are both answered 401 'Invalid email
\* or password'.
C16_LoginAmbiguity ==
  [][\A s \in AuthSlots :
       ( /\ Answers(s, LoginRoute, {"validate", "service"})
         /\ isEmail(auth[s].email)
         /\ auth[s].password # ""
         /\ LET user == findByEmail(users, normalizeEmail(auth[s].email)) IN
              \/ user = Null
              \/ /\ user.status = "ACTIVE"
                 /\ ~verifyPassword(auth[s].password, user.password) )
       => /\ auth'[s].res.status = 401
          /\ auth'[s].res.message = "Invalid email or password"]_vars

\* C17: login issues no token for an account whose status is INACTIVE: the
\* login controller answers 403 'Account is inactive. Please contact
\* support.' whether or not the password is right, and the owner of a token
\* that a response on the auth routes hands out is ACTIVE when it is sent.
C17_InactiveStep ==
  \A s \in AuthSlots :
    /\ Answers(s, LoginRoute, {"service"}) =>
         LET user == findByEmail(users, auth[s].email) IN
           (user # Null /\ user.status = "INACTIVE") =>
             /\ auth'[s].res.status = 403
             /\ auth'[s].res.message = "Account is inactive. Please contact support."
             /\ ~auth'[s].res.success
    /\ (auth[s].phase # "done" /\ auth'[s].phase = "done" /\ auth'[s].res.success) =>
         users'[auth'[s].res.data.token.payload.userId].status = "ACTIVE"

C18_DuplicateEmail ==
  [][\A s \in AuthSlots :
       ( /\ Answers(s, Register, {"validate", "service", "create"})
         /\ isEmail(auth[s].email)
         /\ findByEmail(users, normalizeEmail(auth[s].email)) # Null )
       => /\ auth'[s].res.status = 409
          /\ users' = users]_vars

C20_GateStep ==
  (AtStep("authenticateToken") /\ req' # req) =>
    LET token == req.authHeader.token
        good == /\ HasToken(req.authHeader)
                /\ token.shape = "jwt"
                /\ token.secret = "config"
                /\ now < token.payload.exp
    IN IF good
         THEN /\ req'.phase = "chain"
              /\ req'.pc = req.pc + 1
              /\ req'.user = token.payload
         ELSE req'.phase = "error"

C20_GuardStep ==
  (AtStep("requireAdmin") /\ req' # req) =>
    (req'.phase = "chain" <=> req.user.role = "ADMIN")

C20_TokenOnly == [][C20_GateStep /\ C20_GuardStep]_vars

\* The gate has let a request through, and the next handler has run, with the
\* token of a user whom an earlier request blocked or deleted.
C20_Witness ==
  /\ InFlight
  /\ Len(req.ran) >= 4
  /\ req.ran[3] = "authenticateToken"
  /\ req.rejectedBy # "authenticateToken"
  /\ req.user = req.authHeader.token.payload
  /\ req.before[req.user.userId].status = "INACTIVE"
  /\ users[req.user.userId].status = "INACTIVE"

(***************************************************************************)
(* C21..C30: the error translator, the permission guards, the order of    *)
(* the pipeline and the user store.                                        *)
(***************************************************************************)

\* An error that is no AppError, carries no numeric statusCode and is not
\* an error of the Prisma client.
Unclassified(e) ==
  /\ ~instanceofAppError(e)
  /\ e.statusCode = 0
  /\ e.name \in {"Error", "TypeError"}

\* C21: errorHandler is terminal. Called with an error object of any kind
\* (AppError, error with a numeric statusCode, error of the Prisma client,
\* any other Error) it sends exactly one response with an error status and
\* does not call next; an unclassified error is answered 500 "Internal
\* Server Error", never with its own message; and asyncHandler passes the
\* rejection of the controller it wraps, unchanged, to next.
C21_Terminal ==
  /\ UnitCalled("errorHandler") =>
        /\ unit.sent = 1
        /\ ~unit.nextCalled
        /\ unit.res.status \in 400..599
        /\ Unclassified(unit.err) =>
              /\ unit.res.status = 500
              /\ unit.res.message = "Internal Server Error"
              /\ unit.res.message # unit.err.message
  /\ UnitCalled("asyncHandler") /\ unit.err # NoError =>
        unit.nextCalled /\ unit.next = unit.err

C21_Witness ==
  /\ UnitCalled("errorHandler")
  /\ unit.err.name = "TypeError"
  /\ unit.res.status = 500
  /\ unit.res.message = "Internal Server Error"

\* C22: the body errorHandler sends always has success = false and a
\* timestamp; it has a stack or the name of the error only when the
\* environment is development, so never in production.
C22_NoStackInProduction ==
  UnitCalled("errorHandler") =>
    /\ unit.res.success = FALSE
    /\ {"success", "timestamp"} \subseteq unit.res.keys
    /\ (unit.res.stack \/ unit.res.keys \cap {"stack", "error"} # {}) =>
          nodeEnv = "development"

C22_Witness ==
  /\ UnitCalled("errorHandler")
  /\ nodeEnv = "production"
  /\ unit.err.name = "Error"
  /\ ~unit.res.stack
  /\ unit.res.keys = {"success", "message", "timestamp", "path", "method"}

\* C25 as stated: requireResourcePermission(p) passes exactly when the
\* role has p or the ownership check succeeds, the ownership check taking
\* the own id and the parameter "me".
C25_PermissionAsClaimed ==
  UnitCalled("requireResourcePermission") /\ unit.user # NoClaim =>
    (unit.next = NoError <=>
       \/ unit.permission \in ROLE_PERMISSIONS[unit.user.role]
       \/ unit.opts.allowOwner /\ unit.id \in {unit.user.userId, Me})

\* C25, amended: with a claim on the request, requirePermission(p) passes
\* iff ROLE_PERMISSIONS[claim.role] contains p and answers 403 otherwise;
\* requireResourcePermission(p) passes iff the role has p or, with
\* allowOwner, the id parameter equals claim.userId (the parameter "me" is
\* not taken for the own id) and answers 403 otherwise; with allowOwner
\* false it decides as requirePermission(p). Without a claim both answer 401.
C25_Permission ==
  /\ UnitCalled("requirePermission") =>
        IF unit.user = NoClaim THEN unit.next.statusCode = 401
        ELSE IF unit.permission \in ROLE_PERMISSIONS[unit.user.role]
          THEN unit.next = NoError
        ELSE unit.next.statusCode = 403
  /\ UnitCalled("requireResourcePermission") =>
        /\ IF unit.user = NoClaim THEN unit.next.statusCode = 401
           ELSE IF \/ unit.permission \in ROLE_PERMISSIONS[unit.user.role]
                   \/ unit.opts.allowOwner /\ unit.id = unit.user.userId
             THEN unit.next = NoError
           ELSE unit.next.statusCode = 403
        /\ ~unit.opts.allowOwner =>
             unit.next = requirePermission(unit.permission, unit.user)

C25_Witness ==
  /\ UnitCalled("requireResourcePermission")
  /\ unit.user # NoClaim
  /\ unit.user.role = "USER"
  /\ unit.permission = "read:all_users"
  /\ unit.opts.allowOwner
  /\ unit.id = unit.user.userId
  /\ unit.next = NoError

Envelope == {"success", "message", "timestamp", "path", "method"}

ErrorAnswered == Answered /\ req.res.status >= 400

\* C23 as stated: every error response, the 429 of a limiter and the 400 of
\* validate included, has the fields success = false, message, timestamp,
\* path and method.
C23_EnvelopeAsClaimed ==
  ErrorAnswered => ~req.res.success /\ Envelope \subseteq req.res.keys

\* C23, amended: every error response has success = false and a message.
\* One sent by errorHandler, the 404 of an unmatched route included, also
\* has timestamp, path and method; the 400 validate sends itself has errors
\* and timestamp but neither path nor method; the 429 of a rate limiter has
\* only success and message (and retryAfter on the route limiters).
C23_Envelope ==
  ErrorAnswered =>
    /\ ~req.res.success
    /\ {"success", "message"} \subseteq req.res.keys
    /\ IF req.handled THEN Envelope \subseteq req.res.keys
       ELSE IF req.res.status = 429
         THEN /\ req.rejectedBy \in LimiterSteps
              /\ req.res.keys \subseteq {"success", "message", "retryAfter"}
       ELSE /\ req.res.status = 400
            /\ req.res.keys = {"success", "message", "errors", "timestamp"}

C23_Witness ==
  /\ ErrorAnswered
  /\ req.route = "GET /api/nonexistent"
  /\ req.res.status = 404
  /\ req.handled
  /\ Envelope \subseteq req.res.keys

\* C24: every kind of failure is answered with its canonical status and
\* code: a missing token with 401 and AUTHENTICATION_ERROR or UNAUTHORIZED,
\* an expired token with 401 TOKEN_EXPIRED, a rejection by a role or
\* ownership guard with 403 FORBIDDEN, a missing user with 404 NOT_FOUND.
C24_CanonicalCodes ==
  (ErrorAnswered /\ req.handled) =>
    /\ (req.rejectedBy = "authenticateToken" /\ req.authHeader.scheme = "absent") =>
          /\ req.res.status = 401
          /\ req.res.code \in {"AUTHENTICATION_ERROR", "UNAUTHORIZED"}
    /\ (/\ req.rejectedBy = "authenticateToken"
        /\ req.authHeader.scheme = "Bearer "
        /\ req.authHeader.token \in IssuedTokens
        /\ req.authHeader.token.payload.exp <= now) =>
          req.res.status = 401 /\ req.res.code = "TOKEN_EXPIRED"
    /\ req.rejectedBy \in {"requireAdmin", "canAccessOwnProfile", "canModifyUser"} =>
          req.res.status = 403 /\ req.res.code = "FORBIDDEN"
    /\ (req.res.status = 404 /\ req.route # "GET /api/nonexistent") =>
          req.res.code = "NOT_FOUND"

ValidationSteps ==
  {"validateContentType", "validate(getUserById)", "validate(updateUser)",
   "validate(blockUser)", "validate(getUsers)"}

GuardSteps ==
  {"requireAdmin", "extractUserIdFromToken", "canAccessOwnProfile", "canModifyUser"}

\* The place of a step in the order the claim gives: rate limiter,
\* validation, authentication gate, authorization guards, business logic.
ClaimedRank(step) ==
  IF step \in LimiterSteps THEN 1
  ELSE IF step \in ValidationSteps THEN 2
  ELSE IF step = "authenticateToken" THEN 3
  ELSE IF step \in GuardSteps THEN 4
  ELSE 5

\* The place of a step in the order of the route files: rate limiters,
\* authentication gate, guards and validation, business logic.
Rank(step) ==
  IF step \in LimiterSteps THEN 1
  ELSE IF step = "authenticateToken" THEN 2
  ELSE IF step \in GuardSteps \cup ValidationSteps THEN 3
  ELSE 4

\* C26 as stated: on every route the steps run in the order rate limiter,
\* validation, authentication gate, authorization guards, business logic.
C26_OrderAsClaimed ==
  \A i, j \in 1..Len(req.ran) :
    i < j => ClaimedRank(req.ran[i]) <= ClaimedRank(req.ran[j])

\* C26, amended: on every protected route the steps run in the order rate
\* limiters, authentication gate, guards and validation, business logic;
\* validation never runs before the authentication gate, on an admin route
\* it runs after the role guard and on a user route before the ownership
\* guard.  errorHandler runs only when a step failed with next(error), and
\* that step is the last one that ran.
C26_Order ==
  /\ \A i, j \in 1..Len(req.ran) :
       i < j =>
         /\ Rank(req.ran[i]) <= Rank(req.ran[j])
         /\ ~(req.ran[i] \in ValidationSteps /\ req.ran[j] = "requireAdmin")
         /\ ~(/\ req.ran[i] \in {"canAccessOwnProfile", "canModifyUser"}
              /\ req.ran[j] \in ValidationSteps)
  /\ req.handled =>
       /\ req.err # NoError
       /\ req.ran # <<>>
       /\ req.rejectedBy = LastRan

C26_Witness ==
  /\ Answered
  /\ req.res.success
  /\ ~req.handled
  /\ req.route = "PATCH /api/users/:id"
  /\ req.ran = Chain(req.route)

\* C27: a request with a USER token makes no service call for a user id
\* other than the token's userId and leaves every other user record as it
\* was; when its id parameter names another user, a guard or validator
\* rejects it and no controller runs.
C27_Isolation ==
  (req.user # NoClaim /\ req.user.role = "USER") =>
    /\ \A c \in req.calls : c[2] = req.user.userId
    /\ \A i \in DOMAIN req.before :
         i # req.user.userId => i \in DOMAIN users /\ users[i] = req.before[i]
    /\ req.id \notin {req.user.userId, Me, Undefined} =>
         \A k \in 1..Len(req.ran) : Rank(req.ran[k]) < 4

C27_Witness ==
  /\ Answered
  /\ req.user # NoClaim
  /\ req.user.role = "USER"
  /\ req.route = "GET /api/users/:id"
  /\ req.id \in StoredIds \ {req.user.userId}
  /\ req.rejectedBy = "canAccessOwnProfile"
  /\ req.res.status = 403
  /\ req.calls = {}

C30_StatsConsistent ==
  stats.phase = "done" =>
    /\ stats.result["total"] = stats.result["active"] + stats.result["inactive"]
    /\ stats.result["total"] = stats.result["admins"] + stats.result["users"]

\* The status a status-setting controller sets.
StatusSetBy(step) == IF step = "unblockUser" THEN "ACTIVE" ELSE "INACTIVE"

\* C29: no step removes a user record (the set of ids never shrinks); a
\* step of block, unblock or delete changes nothing but the status of the
\* user it names, delete setting INACTIVE like block; whenever one of the
\* three succeeds the user has the status it sets, whatever the status was
\* before (so each is idempotent and an unblock brings a deleted user back
\* to ACTIVE).
C29_SoftDeleteStep ==
  /\ DOMAIN users \subseteq DOMAIN users'
  /\ \A step \in {"blockUser", "unblockUser", "deleteUser"} :
       AtStep(step) =>
         /\ \A i \in DOMAIN users :
              users'[i] # users[i] =>
                /\ i = req.id
                /\ users'[i] = [users[i] EXCEPT !.status = StatusSetBy(step)]
         /\ (req'.phase = "done" /\ req'.res.success) =>
              /\ req.id \in DOMAIN users
              /\ users'[req.id].status = StatusSetBy(step)
              /\ users[req.id].status = StatusSetBy(step) => users' = users

====
